---- MODULE Spec2Model ----
(***************************************************************************)
(* Model of the Clarity analysis engine (clarity-engine): the pipeline of  *)
(* analyze_native over a LogicalGraph -- contradiction detection, cycle    *)
(* detection, topological sort, betweenness centrality, argument scoring,  *)
(* fallacy detection and bias detection.                                   *)
(*                                                                         *)
(* Identifiers are short strings; their lexicographic order is IdOrder.    *)
(* f64 values are modelled as exact rationals <<num, den>>.                *)
(* Text fields are sequences of one-character strings.                     *)
(***************************************************************************)
EXTENDS Integers, Sequences, FiniteSets, TLC

VARIABLES graph_json, graph, pc, contradictions, cycles, topo_order, centrality,
          scores, fallacies, biases, returned, expression, variables

vars == <<graph_json, graph, pc, contradictions, cycles, topo_order, centrality,
          scores, fallacies, biases, returned, expression, variables>>

(***************************************************************************)
(* Bounds of the model.                                                    *)
(***************************************************************************)
MaxIds == 3

MaxRels == 2

MaxCycRels == 4

MaxOrderRels == 3

MaxCentIds == 4

MaxCentRels == 3

MaxScoreIds == 2

MaxScoreRels == 2

MaxContradictions == 1

MaxSupports == 10
(* Propositions and relationships of the graphs given to detect_contradictions. *)
MaxContraIds == 2
(* Propositions and relationships of the graphs for termination. *)
MaxLiveIds == 2

MaxLiveRels == 2
(* Propositions and relationships of the graphs given to detect_biases. *)
MaxBiasIds == 2

MaxBiasRels == 3

(* Propositions and relationships of the graphs given to detect_fallacies  *)
(* and detect_biases in turn.                                              *)
MaxFindingIds == 2

MaxFindingRels == 3

(* Length of the expressions given to extract_variables. *)
MaxExprLen == 4

MaxContraRels == 2

(* The identifier universe, in lexicographic (byte) order. *)
IdOrder == <<"a", "b", "c", "d", "e", "f">>

Ids == {IdOrder[i] : i \in 1..MaxIds}

IdRank(id) == CHOOSE i \in 1..Len(IdOrder) : IdOrder[i] = id

(* String comparison a < b, as Rust's Ord for String on these ids. *)
IdLess(x, y) == IdRank(x) < IdRank(y)

(***************************************************************************)
(* Generic sequence helpers (Vec operations).                              *)
(***************************************************************************)
Range(s) == {s[i] : i \in 1..Len(s)}

Front(s) == SubSeq(s, 1, Len(s) - 1)

(* Vec::contains *)
SeqContains(s, x) == \E i \in 1..Len(s) : s[i] = x

(* Iterator::position: index of the first element equal to x, 0 if none. *)
Position(s, x) ==
    IF SeqContains(s, x) THEN CHOOSE i \in 1..Len(s) : s[i] = x /\ \A j \in 1..(i - 1) : s[j] # x
    ELSE 0

(* HashMap::insert *)
MapPut(m, k, v) == [x \in (DOMAIN m) \cup {k} |-> IF x = k THEN v ELSE m[x]]

RECURSIVE InsertSorted(_, _)
(* Insert x into the sorted sequence s, after any equal elements. *)
InsertSorted(s, x) ==
    IF s = <<>> THEN <<x>>
    ELSE IF IdLess(x, Head(s)) THEN <<x>> \o s
    ELSE <<Head(s)>> \o InsertSorted(Tail(s), x)

RECURSIVE SortIds(_)
(* Vec<String>::sort *)
SortIds(s) == IF s = <<>> THEN <<>> ELSE InsertSorted(SortIds(Front(s)), s[Len(s)])

(***************************************************************************)
(* types.rs                                                                *)
(***************************************************************************)
(* Seeded fault: `contradicts` counted among the dependency edges. *)
is_dependency_edge_any(rel_type) ==
    rel_type \in {"supports", "depends_on", "assumes", "contradicts"}

(* Check if an edge type is a dependency edge. *)
is_dependency_edge(rel_type) == rel_type \in {"supports", "depends_on", "assumes"}

PropIds(g) == {g.propositions[i].id : i \in 1..Len(g.propositions)}

IdsOf(g) == [i \in 1..Len(g.propositions) |-> g.propositions[i].id]

(* LogicalGraph::get_proposition: the first proposition with that id, or None. *)
None == [none |-> TRUE]

(* Option::Some of a value that is not a record *)
Some(v) == [some |-> v]

get_proposition(g, id) ==
    IF id \in PropIds(g)
    THEN g.propositions[CHOOSE i \in 1..Len(g.propositions) :
            g.propositions[i].id = id /\ \A j \in 1..(i - 1) : g.propositions[j].id # id]
    ELSE None

(* LogicalGraph::get_relationships_from *)
get_relationships_from(g, id) == SelectSeq(g.relationships, LAMBDA r : r.from_id = id)

(* LogicalGraph::get_relationships_to *)
get_relationships_to(g, id) == SelectSeq(g.relationships, LAMBDA r : r.to_id = id)

(* LogicalGraph::get_propositions_by_type *)
get_propositions_by_type(g, t) == SelectSeq(g.propositions, LAMBDA p : p.prop_type = t)

(* LogicalGraph::get_dependency_adjacency: from_id -> [to_id, ...] in       *)
(* relationship input order; every proposition is a key, and so is every   *)
(* from_id of a dependency relationship.                                   *)
get_dependency_adjacency(g) ==
    LET deps == SelectSeq(g.relationships, LAMBDA r : is_dependency_edge(r.rel_type))
        keys == PropIds(g) \cup {deps[i].from_id : i \in 1..Len(deps)}
        tos(k) == LET mine == SelectSeq(deps, LAMBDA r : r.from_id = k)
                  IN  [i \in 1..Len(mine) |-> mine[i].to_id]
    IN  [k \in keys |-> tos(k)]

(***************************************************************************)
(* graph/cycle_detection.rs                                                *)
(***************************************************************************)
(* Seeded fault: extract_cycle_from_path returning the whole path instead  *)
(* of the slice from the first occurrence of cycle_start.                  *)
extract_cycle_whole_path(path, cycle_start) ==
    IF Position(path, cycle_start) # 0 THEN path ELSE <<>>

(* Extract a cycle from the current DFS path: from the first occurrence of *)
(* cycle_start to the tail of path; empty if cycle_start is not on it.     *)
extract_cycle_from_path(path, cycle_start) ==
    LET start_idx == Position(path, cycle_start)
    IN  IF start_idx # 0 THEN SubSeq(path, start_idx, Len(path)) ELSE <<>>

RECURSIVE dfs_visit(_, _, _)
RECURSIVE dfs_neighbors(_, _, _, _)
(* The loop `for neighbor in neighbors` of dfs_visit, from index i on.     *)
(* st = [color, cycles, path] are the three &mut arguments.                *)
dfs_neighbors(node, adj, i, st) ==
    IF i > Len(adj[node]) THEN st
    ELSE LET neighbor == adj[node][i] IN
         IF neighbor = node
         THEN dfs_neighbors(node, adj, i + 1,
                            [st EXCEPT !.cycles = Append(@, <<node>>)])
         ELSE IF neighbor \in DOMAIN st.color /\ st.color[neighbor] = 0
         THEN dfs_neighbors(node, adj, i + 1, dfs_visit(neighbor, adj, st))
         ELSE IF neighbor \in DOMAIN st.color /\ st.color[neighbor] = 1
         THEN LET cycle == extract_cycle_from_path(st.path, neighbor)
              IN  dfs_neighbors(node, adj, i + 1,
                                IF cycle # <<>>
                                THEN [st EXCEPT !.cycles = Append(@, cycle)]
                                ELSE st)
         ELSE dfs_neighbors(node, adj, i + 1, st)

(* dfs_visit: mark gray, push on the path, visit the neighbours, pop, mark *)
(* black.                                                                  *)
dfs_visit(node, adj, st) ==
    LET entered == [color  |-> MapPut(st.color, node, 1),
                    cycles |-> st.cycles,
                    path   |-> Append(st.path, node)]
        visited == IF node \in DOMAIN adj
                   THEN dfs_neighbors(node, adj, 1, entered)
                   ELSE entered
    IN  [color  |-> MapPut(visited.color, node, 2),
         cycles |-> visited.cycles,
         path   |-> Front(visited.path)]

(* Rotate a cycle so the lexicographically smallest element is first       *)
(* (min_by_key returns the first minimum).                                 *)
normalize_cycle(cycle) ==
    IF Len(cycle) <= 1 THEN cycle
    ELSE LET min_idx == CHOOSE i \in 1..Len(cycle) :
                           /\ \A j \in 1..Len(cycle) : ~IdLess(cycle[j], cycle[i])
                           /\ \A j \in 1..(i - 1) : IdLess(cycle[i], cycle[j])
         IN  [i \in 1..Len(cycle) |-> cycle[((min_idx - 1 + i - 1) % Len(cycle)) + 1]]

RECURSIVE retain_unseen(_, _, _)
(* cycles.retain(|c| seen.insert(normalize_cycle(c))) from index i on. *)
retain_unseen(cs, i, seen) ==
    IF i > Len(cs) THEN <<>>
    ELSE LET normalized == normalize_cycle(cs[i]) IN
         IF normalized \in seen THEN retain_unseen(cs, i + 1, seen)
         ELSE <<cs[i]>> \o retain_unseen(cs, i + 1, seen \cup {normalized})

(* Seeded fault: deduplicate_cycles that drops nothing. *)
deduplicate_cycles_none(cs) == cs

(* deduplicate_cycles *)
deduplicate_cycles(cs) == retain_unseen(cs, 1, {})

RECURSIVE dfs_starts_first_only(_, _, _, _)
(* A faulty variant: the search starts from the first proposition only. *)
dfs_starts_first_only(ids, adj, i, st) ==
    IF i > Len(ids) \/ i > 1 THEN st
    ELSE IF st.color[ids[i]] = 0
    THEN dfs_starts_first_only(ids, adj, i + 1, dfs_visit(ids[i], adj, [st EXCEPT !.path = <<>>]))
    ELSE dfs_starts_first_only(ids, adj, i + 1, st)

RECURSIVE dfs_starts(_, _, _, _)
(* The loop `for start in &ids` of detect_cycles, from index i on. *)
dfs_starts(ids, adj, i, st) ==
    IF i > Len(ids) THEN st
    ELSE IF st.color[ids[i]] = 0
    THEN dfs_starts(ids, adj, i + 1, dfs_visit(ids[i], adj, [st EXCEPT !.path = <<>>]))
    ELSE dfs_starts(ids, adj, i + 1, st)

(* detect_cycles *)
detect_cycles(g) ==
    LET adj == get_dependency_adjacency(g)
        st0 == [color |-> [id \in PropIds(g) |-> 0], cycles |-> <<>>, path |-> <<>>]
    IN  deduplicate_cycles(dfs_starts(IdsOf(g), adj, 1, st0).cycles)

(***************************************************************************)
(* graph/topo_sort.rs                                                      *)
(***************************************************************************)
(* Seeded fault: the in-degree of a target set to 1 instead of incremented *)
(* (`= 1` for `+= 1`).                                                     *)
in_degree_of_capped(g) ==
    LET deps == SelectSeq(g.relationships, LAMBDA r : is_dependency_edge(r.rel_type))
        keys == PropIds(g) \cup {deps[i].to_id : i \in 1..Len(deps)}
    IN  [k \in keys |-> IF \E i \in 1..Len(deps) : deps[i].to_id = k THEN 1 ELSE 0]

(* Seeded fault: the in-degree map that does not count self-loops. *)
in_degree_of_no_self_loops(g) ==
    LET deps == SelectSeq(g.relationships,
                          LAMBDA r : is_dependency_edge(r.rel_type) /\ r.from_id # r.to_id)
        all  == SelectSeq(g.relationships, LAMBDA r : is_dependency_edge(r.rel_type))
        keys == PropIds(g) \cup {all[i].to_id : i \in 1..Len(all)}
    IN  [k \in keys |-> Len(SelectSeq(deps, LAMBDA r : r.to_id = k))]

(* The in-degree map: every proposition and every to_id of a dependency    *)
(* relationship is a key; the value counts the dependency relationships    *)
(* into it.                                                                *)
in_degree_of(g) ==
    LET deps == SelectSeq(g.relationships, LAMBDA r : is_dependency_edge(r.rel_type))
        keys == PropIds(g) \cup {deps[i].to_id : i \in 1..Len(deps)}
    IN  [k \in keys |-> Len(SelectSeq(deps, LAMBDA r : r.to_id = k))]

RECURSIVE reduce_neighbors(_, _, _)
(* The loop over sorted_neighbors, from index i on; q = [in_degree, queue]. *)
reduce_neighbors(ns, i, q) ==
    IF i > Len(ns) THEN q
    ELSE IF ns[i] \in DOMAIN q.in_degree
    THEN LET deg == q.in_degree[ns[i]] - 1 IN
         reduce_neighbors(ns, i + 1,
             [in_degree |-> [q.in_degree EXCEPT ![ns[i]] = deg],
              queue     |-> IF deg = 0 THEN Append(q.queue, ns[i]) ELSE q.queue])
    ELSE reduce_neighbors(ns, i + 1, q)

RECURSIVE kahn_loop_unsorted_neighbors(_, _, _)
(* The loop with the neighbours taken in adjacency order                   *)
(* (`sorted_neighbors.sort()` missing).                                    *)
kahn_loop_unsorted_neighbors(adj, q, result) ==
    IF q.queue = <<>> THEN result
    ELSE LET node == Head(q.queue)
             rest == [q EXCEPT !.queue = Tail(@)]
         IN  kahn_loop_unsorted_neighbors(adj,
                       IF node \in DOMAIN adj
                       THEN reduce_neighbors(adj[node], 1, rest)
                       ELSE rest,
                       Append(result, node))

RECURSIVE kahn_loop(_, _, _)
(* `while let Some(node) = queue.pop_front()` *)
kahn_loop(adj, q, result) ==
    IF q.queue = <<>> THEN result
    ELSE LET node == Head(q.queue)
             rest == [q EXCEPT !.queue = Tail(@)]
         IN  kahn_loop(adj,
                       IF node \in DOMAIN adj
                       THEN reduce_neighbors(SortIds(adj[node]), 1, rest)
                       ELSE rest,
                       Append(result, node))

(* Seeded fault: the initial queue left in the map's iteration order       *)
(* (`initial.sort()` missing).                                             *)
initial_queue_unsorted(in_degree, hash_order) ==
    SelectSeq(hash_order, LAMBDA k : in_degree[k] = 0)

(* The initial queue: the zero-in-degree keys, collected in the map's      *)
(* iteration order hash_order, then sorted.                                *)
initial_queue(in_degree, hash_order) ==
    SortIds(SelectSeq(hash_order, LAMBDA k : in_degree[k] = 0))

(* topological_sort; hash_order is the order in which the HashMap          *)
(* in_degree yields its keys.                                              *)
topological_sort(g, hash_order) ==
    LET adj == get_dependency_adjacency(g)
        in_degree == in_degree_of(g)
    IN  kahn_loop(adj,
                  [in_degree |-> in_degree, queue |-> initial_queue(in_degree, hash_order)],
                  <<>>)

(* All orders in which a HashMap with key set S may be iterated. *)
HashOrders(S) ==
    {h \in [1..Cardinality(S) -> S] : \A i, j \in 1..Cardinality(S) : i # j => h[i] # h[j]}

(***************************************************************************)
(* f64 arithmetic, modelled exactly: a value is <<numerator, denominator>> *)
(* in lowest terms with a positive denominator.                            *)
(***************************************************************************)
(* The operators of this section and of the next bind their arguments to  *)
(* values once, on entry (value \in {...}), so that an argument that is   *)
(* itself a long computation is evaluated a single time however often the  *)
(* body uses it.                                                           *)
RECURSIVE Gcd(_, _)
Gcd(x, y) == CHOOSE value \in {IF b = 0 THEN a ELSE Gcd(b, a % b) : a \in {x}, b \in {y}} : TRUE

Abs(x) == IF x < 0 THEN -x ELSE x

Rat(n, d) ==
    CHOOSE value \in {<<(s * a) \div g, (s * b) \div g>> :
                         a \in {n}, b \in {d}, g \in {Gcd(Abs(n), Abs(d))},
                         s \in {IF d < 0 THEN -1 ELSE 1}} : TRUE

RInt(n) == <<n, 1>>

RAdd(x, y) ==
    CHOOSE value \in {Rat(a[1] * b[2] + b[1] * a[2], a[2] * b[2]) : a \in {x}, b \in {y}} : TRUE

RSub(x, y) ==
    CHOOSE value \in {Rat(a[1] * b[2] - b[1] * a[2], a[2] * b[2]) : a \in {x}, b \in {y}} : TRUE

RMul(x, y) ==
    CHOOSE value \in {Rat(a[1] * b[1], a[2] * b[2]) : a \in {x}, b \in {y}} : TRUE

RDiv(x, y) ==
    CHOOSE value \in {Rat(a[1] * b[2], a[2] * b[1]) : a \in {x}, b \in {y}} : TRUE

RLess(x, y) ==
    CHOOSE value \in {a[1] * b[2] < b[1] * a[2] : a \in {x}, b \in {y}} : TRUE

RLeq(x, y) ==
    CHOOSE value \in {a[1] * b[2] <= b[1] * a[2] : a \in {x}, b \in {y}} : TRUE

(* f64::clamp(lo, hi) *)
RClamp(x, lo, hi) ==
    CHOOSE value \in {IF RLess(a, lo) THEN lo ELSE IF RLess(hi, a) THEN hi ELSE a :
                         a \in {x}} : TRUE

(***************************************************************************)
(* graph/centrality.rs                                                     *)
(***************************************************************************)
RECURSIVE bfs_neighbors(_, _, _, _)
(* The loop `for neighbor in neighbors` of the BFS, from index i on.       *)
(* s = [queue, stack, predecessors, sigma, dist].                          *)
bfs_neighbors(p_ns, v, i, p_s) ==
    CHOOSE value \in {
        IF i > Len(ns) THEN s
        ELSE LET w == ns[i] IN
             IF w \notin DOMAIN s.dist THEN bfs_neighbors(ns, v, i + 1, s)
             ELSE LET v_dist == s.dist[v]
                      s1 == IF s.dist[w] < 0
                            THEN [s EXCEPT !.dist[w] = v_dist + 1, !.queue = Append(@, w)]
                            ELSE s
                      s2 == IF s1.dist[w] = v_dist + 1
                            THEN [s1 EXCEPT !.sigma[w] = @ + s1.sigma[v],
                                            !.predecessors[w] = Append(@, v)]
                            ELSE s1
                  IN  bfs_neighbors(ns, v, i + 1, s2)
        : ns \in {p_ns}, s \in {p_s}} : TRUE

RECURSIVE bfs_loop(_, _)
(* `while let Some(v) = queue.pop_front()` *)
bfs_loop(adj, p_s) ==
    CHOOSE value \in {
        IF s.queue = <<>> THEN s
        ELSE LET v == Head(s.queue)
                 popped == [s EXCEPT !.queue = Tail(@), !.stack = Append(@, v)]
             IN  bfs_loop(adj, IF v \in DOMAIN adj
                               THEN bfs_neighbors(adj[v], v, 1, popped)
                               ELSE popped)
        : s \in {p_s}} : TRUE

RECURSIVE add_contributions_unweighted(_, _, _, _, _)
(* A faulty variant: the contribution is not weighted by the share         *)
(* sigma[v] / sigma[w] of the shortest paths.                              *)
add_contributions_unweighted(p_preds, i, w, p_sigma, p_delta) ==
    CHOOSE value \in {
        IF i > Len(preds) THEN delta
        ELSE LET v == preds[i]
                 contribution == RAdd(RInt(1), delta[w])
             IN  add_contributions_unweighted(preds, i + 1, w, sigma,
                                   [delta EXCEPT ![v] = RAdd(@, contribution)])
        : preds \in {p_preds}, sigma \in {p_sigma}, delta \in {p_delta}} : TRUE

RECURSIVE add_contributions(_, _, _, _, _)
(* `for &v in &predecessors[w]`, from index i on: delta[v] += ... *)
add_contributions(p_preds, i, w, p_sigma, p_delta) ==
    CHOOSE value \in {
        IF i > Len(preds) THEN delta
        ELSE LET v == preds[i]
                 contribution == RMul(Rat(sigma[v], sigma[w]), RAdd(RInt(1), delta[w]))
             IN  add_contributions(preds, i + 1, w, sigma,
                                   [delta EXCEPT ![v] = RAdd(@, contribution)])
        : preds \in {p_preds}, sigma \in {p_sigma}, delta \in {p_delta}} : TRUE

RECURSIVE back_propagate(_, _, _, _)
(* `while let Some(w) = stack.pop()`; acc = [delta, centrality]. *)
back_propagate(source, p_stack, p_bfs, p_acc) ==
    CHOOSE value \in {
        IF stack = <<>> THEN acc
        ELSE LET w == stack[Len(stack)]
                 rest == Front(stack)
             IN  IF w = source \/ bfs.sigma[w] = 0
                 THEN back_propagate(source, rest, bfs, acc)
                 ELSE LET delta == add_contributions(bfs.predecessors[w], 1, w, bfs.sigma, acc.delta)
                      IN  back_propagate(source, rest, bfs,
                              [delta      |-> delta,
                               centrality |-> [acc.centrality EXCEPT ![w] = RAdd(@, delta[w])]])
        : stack \in {p_stack}, bfs \in {p_bfs}, acc \in {p_acc}} : TRUE

(* One iteration of `for &source in &ids`: the updated centrality map. *)
accumulate_source(g, adj, source, p_cent) ==
    CHOOSE value \in {
        LET ids == PropIds(g)
            s0  == [queue        |-> <<source>>,
                    stack        |-> <<>>,
                    predecessors |-> [id \in ids |-> <<>>],
                    sigma        |-> [id \in ids |-> IF id = source THEN 1 ELSE 0],
                    dist         |-> [id \in ids |-> IF id = source THEN 0 ELSE -1]]
            bfs == bfs_loop(adj, s0)
        IN  back_propagate(source, bfs.stack, bfs,
                           [delta |-> [id \in ids |-> RInt(0)], centrality |-> cent]).centrality
        : cent \in {p_cent}} : TRUE

RECURSIVE accumulate_sources(_, _, _, _)
accumulate_sources(g, adj, i, p_cent) ==
    CHOOSE value \in {
        IF i > Len(g.propositions) THEN cent
        ELSE accumulate_sources(g, adj, i + 1,
                                accumulate_source(g, adj, g.propositions[i].id, cent))
        : cent \in {p_cent}} : TRUE

(* Seeded fault: the raw centrality returned without the division by       *)
(* (n-1)(n-2) and without the clamp.                                       *)
normalize_none(val, n) == val

(* `*val /= normalization; if *val > 1.0 { *val = 1.0 }` *)
normalize_centrality(val, n) ==
    LET normalization == IF n > 2 THEN RInt((n - 1) * (n - 2)) ELSE RInt(1)
        v == RDiv(val, normalization)
    IN  IF RLess(RInt(1), v) THEN RInt(1) ELSE v

(* betweenness_centrality *)
betweenness_centrality(g) ==
    LET n    == Len(g.propositions)
        adj  == get_dependency_adjacency(g)
        zero == [id \in PropIds(g) |-> RInt(0)]
    IN  IF n < 2 THEN zero
        ELSE LET raw == accumulate_sources(g, adj, 1, zero)
             IN  [id \in PropIds(g) |-> normalize_centrality(raw[id], n)]

(***************************************************************************)
(* Text (String) operations.  A text is a sequence of one-character        *)
(* strings.                                                                *)
(***************************************************************************)
UpperChars == <<"A", "B", "C", "D", "E", "F", "G", "H", "I", "J", "K", "L", "M",
                "N", "O", "P", "Q", "R", "S", "T", "U", "V", "W", "X", "Y", "Z">>

LowerChars == <<"a", "b", "c", "d", "e", "f", "g", "h", "i", "j", "k", "l", "m",
                "n", "o", "p", "q", "r", "s", "t", "u", "v", "w", "x", "y", "z">>

DigitChars == {"0", "1", "2", "3", "4", "5", "6", "7", "8", "9"}

DigitValue(c) == CASE c = "0" -> 0 [] c = "1" -> 1 [] c = "2" -> 2 [] c = "3" -> 3
                   [] c = "4" -> 4 [] c = "5" -> 5 [] c = "6" -> 6 [] c = "7" -> 7
                   [] c = "8" -> 8 [] c = "9" -> 9

(* char::is_lowercase *)
is_lowercase(c) == c \in Range(LowerChars)

(* char::is_alphanumeric *)
is_alphanumeric(c) == c \in Range(LowerChars) \cup Range(UpperChars) \cup DigitChars

(* char::is_whitespace *)
is_whitespace(c) == c = " "

(* str::to_lowercase *)
to_lowercase(t) ==
    [i \in 1..Len(t) |-> IF t[i] \in Range(UpperChars)
                         THEN LowerChars[CHOOSE k \in 1..26 : UpperChars[k] = t[i]]
                         ELSE t[i]]

(* kw occurs in t at position i *)
OccursAt(t, kw, i) ==
    /\ i >= 1
    /\ i + Len(kw) - 1 <= Len(t)
    /\ \A k \in 1..Len(kw) : t[i + k - 1] = kw[k]

(* str::find: the position of the first occurrence of kw in t, 0 if none. *)
find(t, kw) ==
    IF \E i \in 1..(Len(t) + 1) : OccursAt(t, kw, i)
    THEN CHOOSE i \in 1..(Len(t) + 1) :
            OccursAt(t, kw, i) /\ \A j \in 1..(i - 1) : ~OccursAt(t, kw, j)
    ELSE 0

(* str::contains *)
contains(t, kw) == \E i \in 1..(Len(t) + 1) : OccursAt(t, kw, i)

(* any keyword of the list kws occurs in t *)
contains_any(t, kws) == \E k \in 1..Len(kws) : contains(t, kws[k])

RECURSIVE trim_start(_)
trim_start(t) == IF t # <<>> /\ is_whitespace(Head(t)) THEN trim_start(Tail(t)) ELSE t

RECURSIVE trim_end(_)
trim_end(t) == IF t # <<>> /\ is_whitespace(t[Len(t)]) THEN trim_end(Front(t)) ELSE t

(* str::trim *)
trim(t) == trim_end(trim_start(t))

RECURSIVE split_ws_from(_, _, _)
(* str::split_whitespace: the maximal runs of non-whitespace characters. *)
split_ws_from(t, i, word) ==
    IF i > Len(t) THEN (IF word = <<>> THEN <<>> ELSE <<word>>)
    ELSE IF is_whitespace(t[i])
    THEN (IF word = <<>> THEN <<>> ELSE <<word>>) \o split_ws_from(t, i + 1, <<>>)
    ELSE split_ws_from(t, i + 1, Append(word, t[i]))

split_whitespace(t) == split_ws_from(t, 1, <<>>)

(* Reverse of a sequence (Vec::reverse). *)
Reverse(s) == [i \in 1..Len(s) |-> s[Len(s) + 1 - i]]

RECURSIVE Pow10(_)
Pow10(k) == IF k = 0 THEN 1 ELSE 10 * Pow10(k - 1)

RECURSIVE DigitsValue(_)
DigitsValue(ds) == IF ds = <<>> THEN 0 ELSE 10 * DigitsValue(Front(ds)) + DigitValue(ds[Len(ds)])

(* str::parse::<f64> on a text of digits and dots: Some(value) when the    *)
(* text has at least one digit and at most one dot, None otherwise.        *)
(* Texts with other characters do not parse (exponent forms, "inf" and     *)
(* "nan" are not among the model's texts).                                 *)
parse_f64(t) ==
    LET dots   == SelectSeq(t, LAMBDA c : c = ".")
        digits == SelectSeq(t, LAMBDA c : c \in DigitChars)
        frac   == IF dots = <<>> THEN 0 ELSE Len(t) - find(t, <<".">>)
    IN  IF /\ \A i \in 1..Len(t) : t[i] \in DigitChars \cup {"."}
           /\ Len(dots) <= 1
           /\ digits # <<>>
        THEN Some(Rat(DigitsValue(digits), Pow10(frac)))
        ELSE None

(***************************************************************************)
(* Keyword lists of the pattern passes.                                    *)
(***************************************************************************)
(* Non-ASCII characters of the source's patterns, each one character. *)
RightArrow == "U+2192"

NotSign == "U+00AC"

GreaterEq == "U+2265"

LogicalOr == "U+2228"

(* sat_solver.rs: time_keywords *)
time_keywords ==
    <<<<"m", "o", "n", "t", "h">>,
      <<"y", "e", "a", "r">>,
      <<"w", "e", "e", "k">>,
      <<"d", "a", "y">>,
      <<"q", "u", "a", "r", "t", "e", "r">>,
      <<"t", "i", "m", "e">>,
      <<"d", "u", "r", "a", "t", "i", "o", "n">>,
      <<"d", "e", "a", "d", "l", "i", "n", "e">>,
      <<"r", "u", "n", "w", "a", "y">>,
      <<"p", "e", "r", "i", "o", "d">>>>

(* sat_solver.rs: the urgency markers of detect_temporal_conflict *)
urgency_markers ==
    <<<<"n", "o", "w">>,
      <<"i", "m", "m", "e", "d", "i", "a", "t", "e", "l", "y">>,
      <<"s", "h", "o", "u", "l", "d">>>>

(* sat_solver.rs: the long-duration markers of detect_temporal_conflict *)
long_markers ==
    <<<<">", "1", "2">>,
      <<"o", "v", "e", "r", " ", "a", " ", "y", "e", "a", "r">>,
      <<">", " ", "1", "2">>>>

(* fallacy_detector.rs: binary_indicators *)
binary_indicators ==
    <<<<"o", "r">>,
      <<"e", "i", "t", "h", "e", "r">>,
      <<"o", "n", "l", "y">>,
      <<LogicalOr>>>>

(* fallacy_detector.rs: authority_patterns *)
authority_patterns ==
    <<<<"s", "a", "y", "s">>,
      <<"a", "c", "c", "o", "r", "d", "i", "n", "g">>,
      <<"e", "x", "p", "e", "r", "t">>,
      <<"a", "u", "t", "h", "o", "r", "i", "t", "y">>,
      <<"b", "e", "l", "i", "e", "v", "e", "s">>,
      <<"a", "r", "g", "u", "e", "s">>,
      <<"c", "l", "a", "i", "m", "s">>,
      <<"s", "t", "a", "t", "e", "d">>>>

(* bias_detector.rs: subjective_indicators *)
subjective_indicators ==
    <<<<"f", "e", "e", "l", "s">>,
      <<"s", "e", "e", "m", "s">>,
      <<"l", "o", "o", "k", "s", " ", "l", "i", "k", "e">>,
      <<"a", "p", "p", "e", "a", "r", "s">>,
      <<"i", "n", "t", "u", "i", "t", "i", "o", "n">>,
      <<"g", "u", "t">>,
      <<"s", "e", "n", "s", "e">>,
      <<"i", "m", "p", "r", "e", "s", "s", "i", "o", "n">>,
      <<"v", "i", "b", "e">>>>

(* bias_detector.rs: the words extract_variables filters out *)
variable_stopwords ==
    <<<<"t", "r", "u", "e">>,
      <<"f", "a", "l", "s", "e">>,
      <<"a", "n", "d">>,
      <<"o", "r">>,
      <<"n", "o", "t">>>>

(* sat_solver.rs: the keyword of a `sufficient` assumption *)
sufficient_kw == <<"s", "u", "f", "f", "i", "c", "i", "e", "n", "t">>

(***************************************************************************)
(* sat_solver.rs                                                           *)
(***************************************************************************)
(* The operator of a duration: from the token before the number, else from *)
(* a prefix of the number's own token, else "=".                           *)
duration_op(parts, i) ==
    LET part == parts[i]
        own  == IF part # <<>> /\ part[1] = ">" THEN ">"
                ELSE IF part # <<>> /\ part[1] = "<" THEN "<"
                ELSE "="
    IN  IF i + 1 <= Len(parts)
        THEN IF parts[i + 1] \in {<<">">>, <<">", "=">>} THEN ">"
             ELSE IF parts[i + 1] \in {<<"<">>, <<"<", "=">>} THEN "<"
             ELSE own
        ELSE own

RECURSIVE duration_from_parts(_, _, _)
(* `for (i, part) in parts.iter().enumerate()`: the first token (scanning  *)
(* backwards from the unit) whose digits and dots parse as a number.       *)
duration_from_parts(parts, i, multiplier) ==
    IF i > Len(parts) THEN None
    ELSE LET trimmed == SelectSeq(parts[i], LAMBDA c : c \in DigitChars \cup {"."})
             val     == parse_f64(trimmed)
         IN  IF val # None
             THEN Some([op |-> duration_op(parts, i), val |-> RMul(val.some, multiplier)])
             ELSE duration_from_parts(parts, i + 1, multiplier)

(* The (unit, multiplier) patterns of extract_duration, in order. *)
duration_patterns ==
    <<[unit |-> <<"m", "o", "n", "t", "h">>, multiplier |-> Rat(1, 1)],
      [unit |-> <<"y", "e", "a", "r">>,      multiplier |-> Rat(12, 1)],
      [unit |-> <<"w", "e", "e", "k">>,      multiplier |-> Rat(1, 4)]>>

RECURSIVE extract_duration_from(_, _)
extract_duration_from(text, k) ==
    IF k > Len(duration_patterns) THEN None
    ELSE LET pos == find(text, duration_patterns[k].unit) IN
         IF pos = 0 THEN extract_duration_from(text, k + 1)
         ELSE LET before == trim_end(SubSeq(text, 1, pos - 1))
                  parts  == Reverse(split_whitespace(before))
                  hit    == duration_from_parts(parts, 1, duration_patterns[k].multiplier)
              IN  IF hit # None THEN hit ELSE extract_duration_from(text, k + 1)

(* extract_duration: Some([op, val]) with val in months, or None. *)
extract_duration(text) == extract_duration_from(text, 1)

(* Option::or_else *)
OrElse(x, y) == IF x # None THEN x ELSE y

(* detect_temporal_conflict: Some(explanation) or None.  The explanation   *)
(* is the template with the statements it interpolates.                    *)
detect_temporal_conflict(a, b) ==
    LET a_expr == to_lowercase(a.formal_expression)
        b_expr == to_lowercase(b.formal_expression)
        a_stmt == to_lowercase(a.statement)
        b_stmt == to_lowercase(b.statement)
        a_duration == OrElse(extract_duration(a_expr), extract_duration(a_stmt))
        b_duration == OrElse(extract_duration(b_expr), extract_duration(b_stmt))
        both == a_duration # None /\ b_duration # None
        a_urgent == contains_any(a_stmt, urgency_markers)
        b_urgent == contains_any(b_stmt, urgency_markers)
        a_long == contains_any(a_stmt, long_markers)
        b_long == contains_any(b_stmt, long_markers)
    IN  IF both /\ a_duration.some.op = ">" /\ b_duration.some.op = "<"
             /\ RLess(b_duration.some.val, a_duration.some.val)
        THEN Some([template |-> "duration", longer |-> a.id, shorter |-> b.id])
        ELSE IF both /\ b_duration.some.op = ">" /\ a_duration.some.op = "<"
                  /\ RLess(a_duration.some.val, b_duration.some.val)
        THEN Some([template |-> "duration", longer |-> b.id, shorter |-> a.id])
        ELSE IF (a_urgent /\ b_long) \/ (b_urgent /\ a_long)
        THEN Some([template |-> "urgency",
                   urgent   |-> IF a_urgent THEN a.id ELSE b.id,
                   lengthy  |-> IF a_long THEN a.id ELSE b.id])
        ELSE None

RECURSIVE parse_implication_from(_, _)
(* The arrows of parse_implication, in order. *)
arrow_patterns == <<<<RightArrow>>, <<"-", ">">>>>

parse_implication_from(expr, k) ==
    IF k > Len(arrow_patterns) THEN None
    ELSE LET pos == find(expr, arrow_patterns[k]) IN
         IF pos = 0 THEN parse_implication_from(expr, k + 1)
         ELSE LET lhs == trim(SubSeq(expr, 1, pos - 1))
                  rhs == trim(SubSeq(expr, pos + Len(arrow_patterns[k]), Len(expr)))
              IN  IF lhs # <<>> /\ rhs # <<>>
                  THEN Some([lhs |-> lhs, rhs |-> rhs])
                  ELSE parse_implication_from(expr, k + 1)

(* parse_implication: Some([lhs, rhs]) or None. *)
parse_implication(expr) == parse_implication_from(expr, 1)

RECURSIVE trim_start_matches(_, _)
(* str::trim_start_matches(char): strips every leading occurrence. *)
trim_start_matches(t, c) ==
    IF t # <<>> /\ Head(t) = c THEN trim_start_matches(Tail(t), c) ELSE t

(* detect_logical_conflict: TRUE when Some(explanation) is returned. *)
detect_logical_conflict(a, b) ==
    LET pa == parse_implication(a.formal_expression)
        pb == parse_implication(b.formal_expression)
    IN  /\ pa # None
        /\ pb # None
        /\ LET a_lhs_t == trim(pa.some.lhs)
               b_lhs_t == trim(pb.some.lhs)
               a_rhs_t == trim(pa.some.rhs)
               b_rhs_t == trim(pb.some.rhs)
               a_negated == <<NotSign>> \o a_rhs_t
               b_negated == <<NotSign>> \o b_rhs_t
               a_stripped == trim(trim_start_matches(a_rhs_t, NotSign))
               b_stripped == trim(trim_start_matches(b_rhs_t, NotSign))
           IN  /\ a_lhs_t = b_lhs_t
               /\ \/ a_rhs_t = b_negated
                  \/ b_rhs_t = a_negated
                  \/ (a_stripped = b_stripped /\ a_rhs_t # b_rhs_t)

NumericChars == DigitChars \cup {".", "K", "k", "M", "m"}

RECURSIVE trim_start_in(_, _)
(* Strip the leading characters that are in the set cs. *)
trim_start_in(t, cs) == IF t # <<>> /\ Head(t) \in cs THEN trim_start_in(Tail(t), cs) ELSE t

RECURSIVE trim_end_in(_, _)
(* Strip the trailing characters that are in the set cs. *)
trim_end_in(t, cs) == IF t # <<>> /\ t[Len(t)] \in cs THEN trim_end_in(Front(t), cs) ELSE t

RECURSIVE numeric_from_words(_, _)
(* `for word in text.split_whitespace()` of extract_numeric_value. *)
numeric_from_words(words, i) ==
    IF i > Len(words) THEN None
    ELSE LET others  == Range(words[i]) \ NumericChars
             cleaned == trim_end_in(trim_start_in(words[i], others), others)
         IN  IF cleaned = <<>> THEN numeric_from_words(words, i + 1)
             ELSE LET last == cleaned[Len(cleaned)]
                      multiplier == IF last \in {"K", "k"} THEN 1000
                                    ELSE IF last \in {"M", "m"} THEN 1000000
                                    ELSE 1
                      num_part == trim_end_in(cleaned, {"K", "k", "M", "m"})
                      val == parse_f64(num_part)
                  IN  IF val # None THEN Some(RMul(val.some, RInt(multiplier)))
                      ELSE numeric_from_words(words, i + 1)

(* extract_numeric_value: Some(value) or None. *)
extract_numeric_value(text) ==
    numeric_from_words(split_whitespace(SelectSeq(text, LAMBDA c : c # ",")), 1)

(* The index pairs <<i, j>> with 1 <= i < j <= n, in the order of the      *)
(* nested loops `for i in 0..n { for j in (i+1)..n`.                       *)
RECURSIVE PairsFrom(_, _, _)
PairsFrom(n, i, j) ==
    IF i >= n THEN <<>>
    ELSE IF j > n THEN PairsFrom(n, i + 1, i + 2)
    ELSE <<<<i, j>>>> \o PairsFrom(n, i, j + 1)

Pairs(n) == PairsFrom(n, 1, 2)

RECURSIVE explicit_contradictions_both_load_bearing(_, _, _)
(* Strategy 1 with a severity that is critical only when both endpoints   *)
(* are load-bearing.                                                       *)
explicit_contradictions_both_load_bearing(g, i, acc) ==
    IF i > Len(g.relationships) THEN acc
    ELSE LET rel  == g.relationships[i]
             from == get_proposition(g, rel.from_id)
             to   == get_proposition(g, rel.to_id)
         IN  IF rel.rel_type = "contradicts" /\ from # None /\ to # None
             THEN explicit_contradictions_both_load_bearing(g, i + 1,
                    [counter |-> acc.counter + 1,
                     out |-> Append(acc.out,
                        [id |-> [kind |-> "contradiction-explicit", n |-> acc.counter + 1],
                         proposition_ids |-> <<rel.from_id, rel.to_id>>,
                         contradiction_type |-> "logical",
                         severity |-> IF from.is_load_bearing /\ to.is_load_bearing
                                      THEN "critical" ELSE "major",
                         human_explanation |-> [template |-> "explicit"]])])
             ELSE explicit_contradictions_both_load_bearing(g, i + 1, acc)

RECURSIVE explicit_contradictions(_, _, _)
(* Strategy 1, from relationship i on; acc = [out, counter]. *)
explicit_contradictions(g, i, acc) ==
    IF i > Len(g.relationships) THEN acc
    ELSE LET rel  == g.relationships[i]
             from == get_proposition(g, rel.from_id)
             to   == get_proposition(g, rel.to_id)
         IN  IF rel.rel_type = "contradicts" /\ from # None /\ to # None
             THEN explicit_contradictions(g, i + 1,
                    [counter |-> acc.counter + 1,
                     out |-> Append(acc.out,
                        [id |-> [kind |-> "contradiction-explicit", n |-> acc.counter + 1],
                         proposition_ids |-> <<rel.from_id, rel.to_id>>,
                         contradiction_type |-> "logical",
                         severity |-> IF from.is_load_bearing \/ to.is_load_bearing
                                      THEN "critical" ELSE "major",
                         human_explanation |-> [template |-> "explicit"]])])
             ELSE explicit_contradictions(g, i + 1, acc)

(* The time-related propositions, in input order. *)
time_props_of(g) ==
    SelectSeq(g.propositions,
              LAMBDA p : \/ contains_any(to_lowercase(p.formal_expression), time_keywords)
                         \/ contains_any(to_lowercase(p.statement), time_keywords))

RECURSIVE temporal_contradictions(_, _, _, _)
(* Strategy 2, from pair k on. *)
temporal_contradictions(time_props, pairs, k, acc) ==
    IF k > Len(pairs) THEN acc
    ELSE LET a == time_props[pairs[k][1]]
             b == time_props[pairs[k][2]]
             explanation == detect_temporal_conflict(a, b)
         IN  IF explanation # None
             THEN temporal_contradictions(time_props, pairs, k + 1,
                    [counter |-> acc.counter + 1,
                     out |-> Append(acc.out,
                        [id |-> [kind |-> "contradiction-temporal", n |-> acc.counter + 1],
                         proposition_ids |-> <<a.id, b.id>>,
                         contradiction_type |-> "temporal",
                         severity |-> IF a.is_load_bearing \/ b.is_load_bearing
                                      THEN "critical" ELSE "major",
                         human_explanation |-> explanation.some])])
             ELSE temporal_contradictions(time_props, pairs, k + 1, acc)

RECURSIVE logical_contradictions(_, _, _, _)
(* Strategy 3, from pair k on. *)
logical_contradictions(g, pairs, k, acc) ==
    IF k > Len(pairs) THEN acc
    ELSE LET a == g.propositions[pairs[k][1]]
             b == g.propositions[pairs[k][2]]
         IN  IF detect_logical_conflict(a, b)
             THEN logical_contradictions(g, pairs, k + 1,
                    [counter |-> acc.counter + 1,
                     out |-> Append(acc.out,
                        [id |-> [kind |-> "contradiction-logical", n |-> acc.counter + 1],
                         proposition_ids |-> <<a.id, b.id>>,
                         contradiction_type |-> "logical",
                         severity |-> IF a.is_load_bearing /\ b.is_load_bearing
                                      THEN "critical" ELSE "major",
                         human_explanation |-> [template |-> "logical"]])])
             ELSE logical_contradictions(g, pairs, k + 1, acc)

(* The propositions from which a numeric value is extracted. *)
numeric_props_of(g) ==
    SelectSeq(g.propositions,
              LAMBDA p : OrElse(extract_numeric_value(p.formal_expression),
                                extract_numeric_value(p.statement)) # None)

RECURSIVE detect_resource_contradictions(_, _, _)
(* Strategy 4 (detect_resource_contradictions), from proposition i on. *)
detect_resource_contradictions(g, i, acc) ==
    IF i > Len(g.propositions) THEN acc
    ELSE LET p == g.propositions[i] IN
         IF /\ p.prop_type = "assumption"
            /\ \/ contains(p.formal_expression, <<GreaterEq>>)
               \/ contains(p.formal_expression, <<">", "=">>)
               \/ contains(to_lowercase(p.statement), sufficient_kw)
         THEN LET deps_from == get_relationships_from(g, p.id)
                  deps_to   == get_relationships_to(g, p.id)
                  related_ids == {deps_from[k].to_id : k \in 1..Len(deps_from)}
                                 \cup {deps_to[k].from_id : k \in 1..Len(deps_to)}
                  related_nums == SelectSeq(numeric_props_of(g), LAMBDA q : q.id \in related_ids)
              IN  IF Len(related_nums) >= 2
                  THEN detect_resource_contradictions(g, i + 1,
                         [counter |-> acc.counter + 1,
                          out |-> Append(acc.out,
                             [id |-> [kind |-> "contradiction-resource", n |-> acc.counter + 1],
                              proposition_ids |-> <<p.id>> \o
                                  [k \in 1..Len(related_nums) |-> related_nums[k].id],
                              contradiction_type |-> "empirical",
                              severity |-> IF p.is_load_bearing THEN "critical" ELSE "major",
                              human_explanation |-> [template |-> "resource"]])])
                  ELSE detect_resource_contradictions(g, i + 1, acc)
         ELSE detect_resource_contradictions(g, i + 1, acc)

(* The four strategies in order, each numbering its records from 1. *)
detect_contradictions_per_kind_counters(g) ==
    LET s1 == explicit_contradictions(g, 1, [out |-> <<>>, counter |-> 0])
        tp == time_props_of(g)
        s2 == temporal_contradictions(tp, Pairs(Len(tp)), 1, [out |-> s1.out, counter |-> 0])
        s3 == logical_contradictions(g, Pairs(Len(g.propositions)), 1,
                                     [out |-> s2.out, counter |-> 0])
        s4 == detect_resource_contradictions(g, 1, [out |-> s3.out, counter |-> 0])
    IN  s4.out

(* detect_contradictions: the four strategies in order, one shared counter. *)
detect_contradictions(g) ==
    LET s1 == explicit_contradictions(g, 1, [out |-> <<>>, counter |-> 0])
        tp == time_props_of(g)
        s2 == temporal_contradictions(tp, Pairs(Len(tp)), 1, s1)
        s3 == logical_contradictions(g, Pairs(Len(g.propositions)), 1, s2)
        s4 == detect_resource_contradictions(g, 1, s3)
    IN  s4.out

(* A faulty variant: every incoming dependency relationship counts as    *)
(* support.                                                                *)
support_count_of_any_dependency(g, id) ==
    Len(SelectSeq(get_relationships_to(g, id), LAMBDA r : is_dependency_edge(r.rel_type)))

(***************************************************************************)
(* argument_scorer.rs                                                      *)
(***************************************************************************)
(* The number of `supports` relationships into id. *)
support_count_of(g, id) ==
    Len(SelectSeq(get_relationships_to(g, id), LAMBDA r : r.rel_type = "supports"))

(* One direction of count_vulnerable_assumptions: the relationships rels   *)
(* whose other endpoint (Other(r)) is a vulnerable assumption.             *)
vulnerable_among(g, rels, other) ==
    Len(SelectSeq(rels,
        LAMBDA r : /\ r.rel_type \in {"depends_on", "assumes"}
                   /\ LET q == get_proposition(g, r[other]) IN
                      /\ q # None
                      /\ q.prop_type = "assumption"
                      /\ q.is_load_bearing
                      /\ support_count_of(g, q.id) = 0))

(* count_vulnerable_assumptions *)
count_vulnerable_assumptions(g, prop_id) ==
    vulnerable_among(g, get_relationships_from(g, prop_id), "to_id")
    + vulnerable_among(g, get_relationships_to(g, prop_id), "from_id")

(* Seeded fault: the score without `.clamp(0.0, 1.0)`. *)
final_score_unclamped(base, penalty, centrality_bonus) ==
    RAdd(RSub(base, penalty), centrality_bonus)

(* `(base - penalty + centrality_bonus).clamp(0.0, 1.0)` *)
final_score(base, penalty, centrality_bonus) ==
    RClamp(RAdd(RSub(base, penalty), centrality_bonus), RInt(0), RInt(1))

(* A faulty variant: a contradiction is counted only for the first of its *)
(* proposition ids.                                                        *)
score_of_first_id_only(g, prop, contras, cent) ==
    LET evidence_paths == support_count_of(g, prop.id)
        contradiction_count ==
            Len(SelectSeq(contras, LAMBDA c : c.proposition_ids[1] = prop.id))
        vulnerable_assumptions == count_vulnerable_assumptions(g, prop.id)
        base == Rat(evidence_paths, evidence_paths + 1)
        penalty == RAdd(RMul(RInt(contradiction_count), Rat(3, 10)),
                        RMul(RInt(vulnerable_assumptions), Rat(2, 10)))
        centrality_bonus ==
            RMul(IF prop.id \in DOMAIN cent THEN cent[prop.id] ELSE RInt(0), Rat(1, 10))
    IN  [proposition_id |-> prop.id,
         score |-> final_score(base, penalty, centrality_bonus),
         evidence_paths |-> evidence_paths,
         contradiction_count |-> contradiction_count,
         vulnerable_assumptions |-> vulnerable_assumptions]

(* The ArgumentScore of one proposition. *)
score_of(g, prop, contras, cent) ==
    LET evidence_paths == support_count_of(g, prop.id)
        contradiction_count ==
            Len(SelectSeq(contras, LAMBDA c : SeqContains(c.proposition_ids, prop.id)))
        vulnerable_assumptions == count_vulnerable_assumptions(g, prop.id)
        base == Rat(evidence_paths, evidence_paths + 1)
        penalty == RAdd(RMul(RInt(contradiction_count), Rat(3, 10)),
                        RMul(RInt(vulnerable_assumptions), Rat(2, 10)))
        centrality_bonus ==
            RMul(IF prop.id \in DOMAIN cent THEN cent[prop.id] ELSE RInt(0), Rat(1, 10))
    IN  [proposition_id |-> prop.id,
         score |-> final_score(base, penalty, centrality_bonus),
         evidence_paths |-> evidence_paths,
         contradiction_count |-> contradiction_count,
         vulnerable_assumptions |-> vulnerable_assumptions]

(* A faulty variant: propositions that no relationship names are skipped. *)
score_arguments_connected_only(g, contras, cent) ==
    LET ps == SelectSeq(g.propositions,
                        LAMBDA p : \/ get_relationships_to(g, p.id) # <<>>
                                   \/ get_relationships_from(g, p.id) # <<>>)
    IN  [i \in 1..Len(ps) |-> score_of(g, ps[i], contras, cent)]

(* score_arguments: one record per proposition, in input order. *)
score_arguments(g, contras, cent) ==
    [i \in 1..Len(g.propositions) |-> score_of(g, g.propositions[i], contras, cent)]

(***************************************************************************)
(* fallacy_detector.rs                                                     *)
(***************************************************************************)
(* The from_ids of the `supports` relationships into id, in input order. *)
supporter_ids(g, id) ==
    LET sup == SelectSeq(get_relationships_to(g, id), LAMBDA r : r.rel_type = "supports")
    IN  [k \in 1..Len(sup) |-> sup[k].from_id]

(* The supporters that exist (filter_map over get_proposition), in order. *)
supporters_of(g, id) ==
    LET ids == SelectSeq(supporter_ids(g, id), LAMBDA s : get_proposition(g, s) # None)
    IN  [k \in 1..Len(ids) |-> get_proposition(g, ids[k])]

(* A faulty variant: `attacks` relationships are not counted. *)
challenge_count_of_contradicts_only(g, id) ==
    Len(SelectSeq(get_relationships_to(g, id), LAMBDA r : r.rel_type = "contradicts"))

(* The number of `contradicts` or `attacks` relationships into id. *)
challenge_count_of(g, id) ==
    Len(SelectSeq(get_relationships_to(g, id),
                  LAMBDA r : r.rel_type \in {"contradicts", "attacks"}))

RECURSIVE circular_fallacies_skip_self_loops(_, _, _)
(* A faulty variant: a cycle of one node gets no record. *)
circular_fallacies_skip_self_loops(cs, i, acc) ==
    IF i > Len(cs) THEN acc
    ELSE IF Len(cs[i]) = 1 THEN circular_fallacies_skip_self_loops(cs, i + 1, acc)
    ELSE circular_fallacies_skip_self_loops(cs, i + 1,
            [counter |-> acc.counter + 1,
             out |-> Append(acc.out,
                [id |-> [kind |-> "fallacy-circular", n |-> acc.counter + 1],
                 name |-> "Circular Reasoning (Petitio Principii)",
                 affected_node_ids |-> cs[i],
                 pattern_type |-> "cycle"])])

RECURSIVE circular_fallacies(_, _, _)
(* 1. Circular reasoning: one record per cycle; acc = [out, counter]. *)
circular_fallacies(cs, i, acc) ==
    IF i > Len(cs) THEN acc
    ELSE circular_fallacies(cs, i + 1,
            [counter |-> acc.counter + 1,
             out |-> Append(acc.out,
                [id |-> [kind |-> "fallacy-circular", n |-> acc.counter + 1],
                 name |-> "Circular Reasoning (Petitio Principii)",
                 affected_node_ids |-> cs[i],
                 pattern_type |-> "cycle"])])

RECURSIVE hasty_fallacies_below_three(_, _, _, _)
(* A faulty variant: min_evidence_threshold is 3. *)
hasty_fallacies_below_three(g, claims, i, acc) ==
    IF i > Len(claims) THEN acc
    ELSE LET prop == claims[i]
             support_count == support_count_of(g, prop.id)
         IN  IF prop.confidence = "high" /\ support_count > 0 /\ support_count < 3
             THEN hasty_fallacies_below_three(g, claims, i + 1,
                    [counter |-> acc.counter + 1,
                     out |-> Append(acc.out,
                        [id |-> [kind |-> "fallacy-hasty", n |-> acc.counter + 1],
                         name |-> "Hasty Generalization",
                         affected_node_ids |-> <<prop.id>> \o supporter_ids(g, prop.id),
                         pattern_type |-> "hasty_generalization"])])
             ELSE hasty_fallacies_below_three(g, claims, i + 1, acc)

RECURSIVE hasty_fallacies(_, _, _, _)
(* 2. Hasty generalization, over the claims from index i on. *)
hasty_fallacies(g, claims, i, acc) ==
    IF i > Len(claims) THEN acc
    ELSE LET prop == claims[i]
             support_count == support_count_of(g, prop.id)
         IN  IF prop.confidence = "high" /\ support_count > 0 /\ support_count < 2
             THEN hasty_fallacies(g, claims, i + 1,
                    [counter |-> acc.counter + 1,
                     out |-> Append(acc.out,
                        [id |-> [kind |-> "fallacy-hasty", n |-> acc.counter + 1],
                         name |-> "Hasty Generalization",
                         affected_node_ids |-> <<prop.id>> \o supporter_ids(g, prop.id),
                         pattern_type |-> "hasty_generalization"])])
             ELSE hasty_fallacies(g, claims, i + 1, acc)

(* has_binary_framing: some existing supporter's expression or statement   *)
(* contains a binary indicator.                                            *)
has_binary_framing(supporters) ==
    \E k \in 1..Len(supporters) :
        \/ contains_any(to_lowercase(supporters[k].formal_expression), binary_indicators)
        \/ contains_any(to_lowercase(supporters[k].statement), binary_indicators)

RECURSIVE dilemma_fallacies(_, _, _, _)
(* 3. False dilemma, over the claims from index i on. *)
dilemma_fallacies(g, claims, i, acc) ==
    IF i > Len(claims) THEN acc
    ELSE LET prop == claims[i]
             supporters == supporters_of(g, prop.id)
         IN  IF /\ support_count_of(g, prop.id) = 2
                /\ challenge_count_of(g, prop.id) = 0
                /\ has_binary_framing(supporters)
             THEN dilemma_fallacies(g, claims, i + 1,
                    [counter |-> acc.counter + 1,
                     out |-> Append(acc.out,
                        [id |-> [kind |-> "fallacy-dilemma", n |-> acc.counter + 1],
                         name |-> "False Dilemma",
                         affected_node_ids |-> <<prop.id>> \o
                             [k \in 1..Len(supporters) |-> supporters[k].id],
                         pattern_type |-> "false_dilemma"])])
             ELSE dilemma_fallacies(g, claims, i + 1, acc)

RECURSIVE authority_fallacies(_, _, _, _)
(* 4. Appeal to authority, over the evidence from index i on. *)
authority_fallacies(g, evidence, i, acc) ==
    IF i > Len(evidence) THEN acc
    ELSE LET prop == evidence[i] IN
         IF /\ \/ contains_any(to_lowercase(prop.formal_expression), authority_patterns)
               \/ contains_any(to_lowercase(prop.statement), authority_patterns)
            /\ support_count_of(g, prop.id) = 0
         THEN authority_fallacies(g, evidence, i + 1,
                [counter |-> acc.counter + 1,
                 out |-> Append(acc.out,
                    [id |-> [kind |-> "fallacy-authority", n |-> acc.counter + 1],
                     name |-> "Appeal to Authority",
                     affected_node_ids |-> <<prop.id>>,
                     pattern_type |-> "appeal_to_authority"])])
         ELSE authority_fallacies(g, evidence, i + 1, acc)

(* detect_fallacies: the four detectors in order, one shared counter. *)
detect_fallacies(g, cs) ==
    LET claims   == get_propositions_by_type(g, "claim")
        evidence == get_propositions_by_type(g, "evidence")
        f1 == circular_fallacies(cs, 1, [out |-> <<>>, counter |-> 0])
        f2 == hasty_fallacies(g, claims, 1, f1)
        f3 == dilemma_fallacies(g, claims, 1, f2)
        f4 == authority_fallacies(g, evidence, 1, f3)
    IN  f4.out

(***************************************************************************)
(* bias_detector.rs                                                        *)
(***************************************************************************)
(* severity_from_centrality(centrality.get(id)) *)
(* A faulty variant: the thresholds are inclusive. *)
severity_from_centrality_inclusive(cent, id) ==
    IF id \in DOMAIN cent /\ RLeq(Rat(3, 10), cent[id]) THEN "high"
    ELSE IF id \in DOMAIN cent /\ RLeq(Rat(1, 10), cent[id]) THEN "medium"
    ELSE "low"

severity_from_centrality(cent, id) ==
    IF id \in DOMAIN cent /\ RLess(Rat(3, 10), cent[id]) THEN "high"
    ELSE IF id \in DOMAIN cent /\ RLess(Rat(1, 10), cent[id]) THEN "medium"
    ELSE "low"

(* A word passes the standalone-variable test: it contains '_' or all its  *)
(* characters are lowercase letters or '_'.                                *)
looks_like_variable(word) ==
    \/ \E k \in 1..Len(word) : word[k] = "_"
    \/ \A k \in 1..Len(word) : is_lowercase(word[k]) \/ word[k] = "_"

RECURSIVE scan_variables(_, _, _)
(* The character loop of extract_variables, from index i on;               *)
(* s = [vars, current_word, in_parens].                                    *)
scan_variables(expr, i, s) ==
    IF i > Len(expr) THEN s
    ELSE LET ch == expr[i] IN
         IF ch = "("
         THEN scan_variables(expr, i + 1, [s EXCEPT !.current_word = <<>>, !.in_parens = TRUE])
         ELSE IF ch = ")"
         THEN scan_variables(expr, i + 1,
                 IF s.current_word # <<>> /\ s.in_parens
                 THEN [vars |-> s.vars \cup {s.current_word}, current_word |-> <<>>,
                       in_parens |-> FALSE]
                 ELSE [s EXCEPT !.in_parens = FALSE])
         ELSE IF ch \in {",", " "}
         THEN scan_variables(expr, i + 1,
                 IF s.current_word # <<>> /\ s.in_parens
                 THEN [s EXCEPT !.vars = @ \cup {s.current_word}, !.current_word = <<>>]
                 ELSE s)
         ELSE IF is_alphanumeric(ch) \/ ch = "_"
         THEN scan_variables(expr, i + 1, [s EXCEPT !.current_word = Append(@, ch)])
         ELSE scan_variables(expr, i + 1,
                 IF s.current_word # <<>> /\ ~s.in_parens /\ looks_like_variable(s.current_word)
                 THEN [s EXCEPT !.vars = @ \cup {s.current_word}, !.current_word = <<>>]
                 ELSE [s EXCEPT !.current_word = <<>>])

(* extract_variables: the set of variable names (the source returns them   *)
(* sorted and deduplicated).                                               *)
extract_variables(expr) ==
    LET s == scan_variables(expr, 1, [vars |-> {}, current_word |-> <<>>, in_parens |-> FALSE])
        all == IF /\ s.current_word # <<>>
                  /\ (s.in_parens \/ looks_like_variable(s.current_word))
               THEN s.vars \cup {s.current_word}
               ELSE s.vars
    IN  {v \in all : Len(v) > 1 /\ ~SeqContains(variable_stopwords, v)}

RECURSIVE anchoring_biases_flagged_only(_, _, _, _)
(* A faulty variant: the record is emitted only when is_anchored is set,   *)
(* as the comment above the loop has it.                                   *)
anchoring_biases_flagged_only(g, cent, i, acc) ==
    IF i > Len(g.propositions) THEN acc
    ELSE LET prop == g.propositions[i] IN
         IF /\ prop.prop_type = "assumption"
            /\ prop.confidence = "unstated_as_absolute"
            /\ prop.is_anchored
            /\ support_count_of(g, prop.id) = 0
         THEN anchoring_biases_flagged_only(g, cent, i + 1,
                [counter |-> acc.counter + 1,
                 out |-> Append(acc.out,
                    [id |-> [kind |-> "bias-anchoring", n |-> acc.counter + 1],
                     name |-> "Anchoring Effect",
                     affected_node_ids |-> <<prop.id>>,
                     severity |-> severity_from_centrality(cent, prop.id),
                     system |-> 1])])
         ELSE anchoring_biases_flagged_only(g, cent, i + 1, acc)

RECURSIVE anchoring_biases(_, _, _, _)
(* 1. Anchoring effect, over the propositions from index i on. *)
anchoring_biases(g, cent, i, acc) ==
    IF i > Len(g.propositions) THEN acc
    ELSE LET prop == g.propositions[i] IN
         IF /\ prop.prop_type = "assumption"
            /\ prop.confidence = "unstated_as_absolute"
            /\ support_count_of(g, prop.id) = 0
         THEN anchoring_biases(g, cent, i + 1,
                [counter |-> acc.counter + 1,
                 out |-> Append(acc.out,
                    [id |-> [kind |-> "bias-anchoring", n |-> acc.counter + 1],
                     name |-> "Anchoring Effect",
                     affected_node_ids |-> <<prop.id>>,
                     severity |-> severity_from_centrality(cent, prop.id),
                     system |-> 1])])
         ELSE anchoring_biases(g, cent, i + 1, acc)

RECURSIVE confirmation_biases(_, _, _, _, _)
(* 2. Confirmation bias, over the claims from index i on. *)
confirmation_biases(g, cent, claims, i, acc) ==
    IF i > Len(claims) THEN acc
    ELSE LET prop == claims[i] IN
         IF /\ get_relationships_to(g, prop.id) # <<>>
            /\ support_count_of(g, prop.id) >= 2
            /\ challenge_count_of(g, prop.id) = 0
         THEN confirmation_biases(g, cent, claims, i + 1,
                [counter |-> acc.counter + 1,
                 out |-> Append(acc.out,
                    [id |-> [kind |-> "bias-confirmation", n |-> acc.counter + 1],
                     name |-> "Confirmation Bias",
                     affected_node_ids |-> <<prop.id>> \o supporter_ids(g, prop.id),
                     severity |-> severity_from_centrality(cent, prop.id),
                     system |-> 1])])
         ELSE confirmation_biases(g, cent, claims, i + 1, acc)

RECURSIVE availability_biases(_, _, _, _, _)
(* 3. Availability heuristic, over the evidence from index i on. *)
availability_biases(g, cent, evidence, i, acc) ==
    IF i > Len(evidence) THEN acc
    ELSE LET prop == evidence[i] IN
         IF /\ \/ contains_any(to_lowercase(prop.statement), subjective_indicators)
               \/ contains_any(to_lowercase(prop.formal_expression), subjective_indicators)
            /\ prop.confidence \in {"high", "medium"}
         THEN availability_biases(g, cent, evidence, i + 1,
                [counter |-> acc.counter + 1,
                 out |-> Append(acc.out,
                    [id |-> [kind |-> "bias-availability", n |-> acc.counter + 1],
                     name |-> "Availability Heuristic",
                     affected_node_ids |-> <<prop.id>>,
                     severity |-> severity_from_centrality(cent, prop.id),
                     system |-> 1])])
         ELSE availability_biases(g, cent, evidence, i + 1, acc)

(* has_constraints: some relationship into id comes from an existing       *)
(* constraint or risk proposition.                                         *)
has_constraints(g, id) ==
    LET incoming == get_relationships_to(g, id) IN
    \E k \in 1..Len(incoming) :
        LET p == get_proposition(g, incoming[k].from_id)
        IN  p # None /\ p.prop_type \in {"constraint", "risk"}

RECURSIVE planning_biases(_, _, _, _, _)
(* 4. Planning fallacy, over the claims from index i on. *)
planning_biases(g, cent, claims, i, acc) ==
    IF i > Len(claims) THEN acc
    ELSE LET prop == claims[i]
             outgoing_deps ==
                 Len(SelectSeq(get_relationships_from(g, prop.id),
                               LAMBDA r : r.rel_type \in {"depends_on", "assumes"}))
         IN  IF /\ prop.is_load_bearing
                /\ outgoing_deps = 0
                /\ prop.confidence = "high"
                /\ ~has_constraints(g, prop.id)
             THEN planning_biases(g, cent, claims, i + 1,
                    [counter |-> acc.counter + 1,
                     out |-> Append(acc.out,
                        [id |-> [kind |-> "bias-planning", n |-> acc.counter + 1],
                         name |-> "Planning Fallacy",
                         affected_node_ids |-> <<prop.id>>,
                         severity |-> severity_from_centrality(cent, prop.id),
                         system |-> 1])])
             ELSE planning_biases(g, cent, claims, i + 1, acc)

RECURSIVE substitution_for_claim(_, _, _, _, _, _)
(* 5. Attribute substitution: `for evidence in &supporters` of one claim. *)
substitution_for_claim(cent, prop, claim_vars, supporters, k, acc) ==
    IF k > Len(supporters) THEN acc
    ELSE LET evidence_vars == extract_variables(supporters[k].formal_expression) IN
         IF evidence_vars # {} /\ claim_vars \cap evidence_vars = {}
         THEN substitution_for_claim(cent, prop, claim_vars, supporters, k + 1,
                [counter |-> acc.counter + 1,
                 out |-> Append(acc.out,
                    [id |-> [kind |-> "bias-substitution", n |-> acc.counter + 1],
                     name |-> "Attribute Substitution",
                     affected_node_ids |-> <<prop.id, supporters[k].id>>,
                     severity |-> severity_from_centrality(cent, prop.id),
                     system |-> 1])])
         ELSE substitution_for_claim(cent, prop, claim_vars, supporters, k + 1, acc)

RECURSIVE substitution_biases(_, _, _, _, _)
substitution_biases(g, cent, claims, i, acc) ==
    IF i > Len(claims) THEN acc
    ELSE LET prop == claims[i]
             claim_vars == extract_variables(prop.formal_expression)
         IN  IF claim_vars = {}
             THEN substitution_biases(g, cent, claims, i + 1, acc)
             ELSE substitution_biases(g, cent, claims, i + 1,
                     substitution_for_claim(cent, prop, claim_vars,
                                            supporters_of(g, prop.id), 1, acc))

(* detect_biases: the five detectors in order, one shared counter. *)
detect_biases(g, cent) ==
    LET claims   == get_propositions_by_type(g, "claim")
        evidence == get_propositions_by_type(g, "evidence")
        b1 == anchoring_biases(g, cent, 1, [out |-> <<>>, counter |-> 0])
        b2 == confirmation_biases(g, cent, claims, 1, b1)
        b3 == availability_biases(g, cent, evidence, 1, b2)
        b4 == planning_biases(g, cent, claims, 1, b3)
        b5 == substitution_biases(g, cent, claims, 1, b4)
    IN  b5.out

(***************************************************************************)
(* Input graphs.                                                           *)
(***************************************************************************)
RelTypes == {"supports", "contradicts", "depends_on", "attacks", "assumes"}

(* All sequences over S without repetition (proposition ids are unique). *)
InjectiveSeqs(S) ==
    UNION {{s \in [1..k -> S] : \A i, j \in 1..k : i # j => s[i] # s[j]} :
           k \in 0..Cardinality(S)}

SeqsUpTo(S, n) == UNION {[1..k -> S] : k \in 0..n}

Rel(from, to, type) == [from_id |-> from, to_id |-> to, rel_type |-> type]

Prop(id, type, conf, lb, anchored, stmt, expr) ==
    [id |-> id, prop_type |-> type, confidence |-> conf, is_load_bearing |-> lb,
     is_anchored |-> anchored, statement |-> stmt, formal_expression |-> expr]

(* A proposition as the test helper make_prop builds it (the statement and *)
(* the expression carry no keyword).                                       *)
make_prop(id, type, conf) == Prop(id, type, conf, type = "claim", FALSE, <<"s">>, <<"e">>)

(* Graphs for the graph primitives: every order of every subset of Ids as  *)
(* the propositions (an id missing from the propositions makes the         *)
(* relationships that name it dangling), relationships of one dependency   *)
(* kind and one adversarial kind between any two ids.                      *)
StructureRels == {Rel(f, t, ty) : f \in Ids, t \in Ids, ty \in {"supports", "contradicts"}}

StructureGraphs ==
    {[propositions |-> [i \in 1..Len(ids) |-> make_prop(ids[i], "claim", "high")],
      relationships |-> rels] :
        ids \in InjectiveSeqs(Ids), rels \in SeqsUpTo(StructureRels, MaxRels)}

(* Graphs for cycle detection: the propositions are all of Ids in every     *)
(* order, with up to MaxCycRels dependency relationships.                  *)
CycleGraphs ==
    {[propositions |-> [i \in 1..Len(ids) |-> make_prop(ids[i], "claim", "high")],
      relationships |-> rels] :
        ids \in {s \in InjectiveSeqs(Ids) : Len(s) = Cardinality(Ids)},
        rels \in SeqsUpTo({Rel(f, t, "supports") : f \in Ids, t \in Ids}, MaxCycRels)}

(* Graphs for cycle detection followed by the topological sort: every      *)
(* order of every subset of Ids as the propositions, with up to            *)
(* MaxOrderRels dependency relationships between any two ids (dangling     *)
(* when an id is missing from the propositions).                           *)
OrderGraphs ==
    {[propositions |-> [i \in 1..Len(ids) |-> make_prop(ids[i], "claim", "high")],
      relationships |-> rels] :
        ids \in InjectiveSeqs(Ids),
        rels \in SeqsUpTo({Rel(f, t, "supports") : f \in Ids, t \in Ids}, MaxOrderRels)}

(* Graphs for centrality: the first n of MaxCentIds propositions, with up  *)
(* to MaxCentRels dependency relationships between any two of the ids.     *)
CentIds == {IdOrder[i] : i \in 1..MaxCentIds}

CentralityGraphs ==
    {[propositions |-> [i \in 1..n |-> make_prop(IdOrder[i], "evidence", "low")],
      relationships |-> rels] :
        n \in 0..MaxCentIds,
        rels \in SeqsUpTo({Rel(f, t, "supports") : f \in CentIds, t \in CentIds}, MaxCentRels)}

(* Inputs of score_arguments called on its own: a graph of claims and      *)
(* load-bearing assumptions joined by supports and depends_on              *)
(* relationships, or a claim with up to MaxSupports supporting             *)
(* relationships; any list of contradictions and any centrality map with   *)
(* values 0 or 1.                                                          *)
ScoreIds == {IdOrder[i] : i \in 1..MaxScoreIds}

ScoreProps(id) ==
    {make_prop(id, "claim", "medium"),
     Prop(id, "assumption", "medium", TRUE, FALSE, <<"s">>, <<"e">>)}

SupportedGraphs ==
    {[propositions |-> <<make_prop(IdOrder[1], "claim", "medium"),
                         make_prop(IdOrder[2], "claim", "medium")>>,
      relationships |-> [k \in 1..n |-> Rel(IdOrder[2], IdOrder[1], "supports")]] :
        n \in 0..MaxSupports}

ScoreGraphs ==
    SupportedGraphs \cup
    UNION {{[propositions |-> props, relationships |-> rels] :
                props \in {ps \in [1..Len(ids) -> UNION {ScoreProps(id) : id \in ScoreIds}] :
                              \A i \in 1..Len(ids) : ps[i].id = ids[i]},
                rels \in SeqsUpTo({Rel(f, t, ty) : f \in ScoreIds, t \in ScoreIds,
                                                   ty \in {"supports", "depends_on"}},
                                  MaxScoreRels)} :
           ids \in InjectiveSeqs(ScoreIds)}

ScoreContradictions ==
    SeqsUpTo({[proposition_ids |-> ids] : ids \in {<<IdOrder[1]>>, <<IdOrder[2]>>}},
             MaxContradictions)

ScoreCentralities ==
    UNION {[S -> {RInt(0), RInt(1)}] : S \in SUBSET ScoreIds}

(* Inputs of detect_contradictions called on its own: claims over the      *)
(* first MaxContraIds ids, load-bearing or not, whose texts are plain, an  *)
(* implication, the implication of the negation, an urgent time statement  *)
(* or a long time statement, and load-bearing claims whose text is a time  *)
(* statement both urgent and long or the implication of the double         *)
(* negation; up to MaxContraRels relationships, each a contradicts         *)
(* relationship between any two ids (the id after the last proposition id  *)
(* is dangling) or one supports relationship.                              *)
ContradictionGraphs ==
    LET ids == {IdOrder[i] : i \in 1..MaxContraIds}
        texts ==
            {[statement |-> <<"s">>, formal_expression |-> <<"e">>],
             [statement |-> <<"s">>,
              formal_expression |-> <<"x", " ", RightArrow, " ", "y">>],
             [statement |-> <<"s">>,
              formal_expression |-> <<"x", " ", RightArrow, " ", NotSign, "y">>],
             [statement |-> <<"d", "a", "y", " ", "n", "o", "w">>,
              formal_expression |-> <<"e">>],
             [statement |-> <<"d", "a", "y", " ", ">", "1", "2">>,
              formal_expression |-> <<"e">>]}
        marked ==
            {[statement |-> <<"d", "a", "y", " ", "n", "o", "w", " ", ">", "1", "2">>,
              formal_expression |-> <<"e">>],
             [statement |-> <<"s">>,
              formal_expression |-> <<"x", " ", RightArrow, " ", NotSign, NotSign, "y">>]}
        props == {Prop(id, "claim", "high", lb, FALSE, t.statement, t.formal_expression) :
                     id \in ids, lb \in BOOLEAN, t \in texts}
                 \cup {Prop(id, "claim", "high", TRUE, FALSE, t.statement, t.formal_expression) :
                          id \in ids, t \in marked}
        rels == {Rel(f, t, "contradicts") : f, t \in ids \cup {IdOrder[MaxContraIds + 1]}}
                \cup {Rel(IdOrder[1], IdOrder[2], "supports")}
    IN  [propositions : UNION {{ps \in [1..Len(order) -> props] :
                                   \A i \in 1..Len(order) : ps[i].id = order[i]} :
                               order \in InjectiveSeqs(ids)},
         relationships : SeqsUpTo(rels, MaxContraRels)]

(* Inputs of detect_biases called on its own: every order of every subset  *)
(* of the first MaxBiasIds ids, each a claim, an assumption stated as an   *)
(* absolute (flagged as an anchor or not) or an assumption of high         *)
(* confidence; up to MaxBiasRels relationships into the first id, each a   *)
(* supports, contradicts or attacks relationship from any id (the id after *)
(* the last proposition id is dangling).                                   *)
BiasGraphs ==
    LET ids == {IdOrder[i] : i \in 1..MaxBiasIds}
        props == UNION {{make_prop(id, "claim", "high"),
                         Prop(id, "assumption", "unstated_as_absolute", TRUE, FALSE,
                              <<"s">>, <<"e">>),
                         Prop(id, "assumption", "unstated_as_absolute", TRUE, TRUE,
                              <<"s">>, <<"e">>),
                         Prop(id, "assumption", "high", TRUE, FALSE, <<"s">>, <<"e">>)} :
                        id \in ids}
        rels == {Rel(f, IdOrder[1], ty) :
                    f \in ids \cup {IdOrder[MaxBiasIds + 1]},
                    ty \in {"supports", "contradicts", "attacks"}}
    IN  [propositions : UNION {{ps \in [1..Len(order) -> props] :
                                   \A i \in 1..Len(order) : ps[i].id = order[i]} :
                               order \in InjectiveSeqs(ids)},
         relationships : SeqsUpTo(rels, MaxBiasRels)]

(* Inputs of detect_fallacies and detect_biases called in turn: every      *)
(* order of every subset of the first MaxFindingIds ids.  The first id is  *)
(* a claim: load-bearing of high confidence, of low confidence, or of high *)
(* confidence with the variable xy in its expression.  The second id is a  *)
(* plain evidence, an evidence whose statement frames two options, an      *)
(* evidence of medium confidence with a subjective statement and the       *)
(* variable zw in its expression, or an assumption stated as an absolute.  *)
(* Up to MaxFindingRels relationships into the first id, each a supports   *)
(* or contradicts relationship from the second id or from the id after it  *)
(* (which is dangling).                                                    *)
FindingGraphs ==
    LET a == IdOrder[1]
        b == IdOrder[MaxFindingIds]
        props == {make_prop(a, "claim", "high"),
                  Prop(a, "claim", "low", FALSE, FALSE, <<"s">>, <<"e">>),
                  Prop(a, "claim", "high", TRUE, FALSE, <<"s">>, <<"(", "x", "y", ")">>),
                  make_prop(b, "evidence", "high"),
                  Prop(b, "evidence", "high", FALSE, FALSE,
                       <<"x", " ", "o", "r", " ", "y">>, <<"e">>),
                  Prop(b, "evidence", "medium", FALSE, FALSE,
                       <<"g", "u", "t">>, <<"(", "z", "w", ")">>),
                  Prop(b, "assumption", "unstated_as_absolute", TRUE, TRUE,
                       <<"s">>, <<"e">>)}
        rels == {Rel(f, a, ty) : f \in {b, IdOrder[MaxFindingIds + 1]},
                                 ty \in {"supports", "contradicts"}}
    IN  [propositions : UNION {{ps \in [1..Len(order) -> props] :
                                   \A i \in 1..Len(order) : ps[i].id = order[i]} :
                               order \in InjectiveSeqs({a, b})},
         relationships : SeqsUpTo(rels, MaxFindingRels)]

(* Centrality maps given to detect_biases: no entry, or an entry for the   *)
(* first id below, at, between and above the two thresholds of             *)
(* severity_from_centrality, or entries for both ids.                      *)
FindingCentralities ==
    LET a == IdOrder[1]
        b == IdOrder[MaxFindingIds]
    IN  {<<>>} \cup {[id \in {a} |-> c] : c \in {Rat(1, 10), Rat(1, 5), Rat(3, 10), Rat(2, 5)}}
        \cup {[id \in {a, b} |-> IF id = a THEN RInt(0) ELSE Rat(1, 2)]}

(* Inputs of extract_variables called on its own: every text of up to      *)
(* MaxExprLen characters over a lowercase letter, an uppercase letter, a   *)
(* digit, the underscore, the space, the comma, the two parentheses and an *)
(* operator sign.                                                          *)
Expressions ==
    UNION {[1..n -> {"a", "B", "1", "_", " ", ",", "(", ")", "+"}] : n \in 0..MaxExprLen}

(***************************************************************************)
(* The JSON text analyze_native receives and returns (serde_json).  A JSON *)
(* value is a one-field record, its kind |-> its content; the kind         *)
(* "invalid" is a text that is no JSON value at all.                       *)
(***************************************************************************)
JVal(t, v) == [k \in {t} |-> v]

JKind(j) == CHOOSE k \in DOMAIN j : TRUE

JBody(j) == j[JKind(j)]

(* The JSON object of a Proposition, as the callers and the tests write it *)
(* (camelCase names, prop_type as "type").                                 *)
prop_to_json(p) ==
    JVal("object",
         [id |-> JVal("string", p.id),
          statement |-> JVal("string", p.statement),
          formalExpression |-> JVal("string", p.formal_expression),
          type |-> JVal("string", p.prop_type),
          confidence |-> JVal("string", p.confidence),
          isImplicit |-> JVal("bool", FALSE),
          isLoadBearing |-> JVal("bool", p.is_load_bearing),
          isAnchored |-> JVal("bool", p.is_anchored)])

(* The JSON object of a Relationship (strength "strong", label null). *)
rel_to_json(r) ==
    JVal("object",
         [id |-> JVal("string", "r"),
          fromId |-> JVal("string", r.from_id),
          toId |-> JVal("string", r.to_id),
          type |-> JVal("string", r.rel_type),
          strength |-> JVal("string", "strong"),
          label |-> JVal("null", <<>>)])

graph_to_json(g) ==
    JVal("object",
         [propositions |->
              JVal("array", [i \in 1..Len(g.propositions) |-> prop_to_json(g.propositions[i])]),
          relationships |->
              JVal("array", [i \in 1..Len(g.relationships) |-> rel_to_json(g.relationships[i])])])

(* The object j has a member `name` of kind t. *)
has_field(j, name, t) == name \in DOMAIN JBody(j) /\ JKind(JBody(j)[name]) = t

(* A faulty variant: the three flags default to false when absent. *)
proposition_from_json_lenient(j) ==
    IF /\ JKind(j) = "object"
       /\ \A f \in {"id", "statement", "formalExpression", "type", "confidence"} :
             has_field(j, f, "string")
       /\ \A f \in {"isImplicit", "isLoadBearing", "isAnchored"} :
             f \in DOMAIN JBody(j) => has_field(j, f, "bool")
    THEN LET val(f) == JBody(JBody(j)[f])
             flag(f) == IF f \in DOMAIN JBody(j) THEN val(f) ELSE FALSE
         IN  Some(Prop(val("id"), val("type"), val("confidence"), flag("isLoadBearing"),
                       flag("isAnchored"), val("statement"), val("formalExpression")))
    ELSE None

(* Deserialize for Proposition: every field is required and typed. *)
proposition_from_json(j) ==
    IF /\ JKind(j) = "object"
       /\ \A f \in {"id", "statement", "formalExpression", "type", "confidence"} :
             has_field(j, f, "string")
       /\ \A f \in {"isImplicit", "isLoadBearing", "isAnchored"} : has_field(j, f, "bool")
    THEN LET val(f) == JBody(JBody(j)[f])
         IN  Some(Prop(val("id"), val("type"), val("confidence"), val("isLoadBearing"),
                       val("isAnchored"), val("statement"), val("formalExpression")))
    ELSE None

(* Deserialize for Relationship: label is an Option (absent, null or a     *)
(* string), every other field is required.                                 *)
relationship_from_json(j) ==
    IF /\ JKind(j) = "object"
       /\ \A f \in {"id", "fromId", "toId", "type", "strength"} : has_field(j, f, "string")
       /\ "label" \in DOMAIN JBody(j) => JKind(JBody(j)["label"]) \in {"null", "string"}
    THEN LET val(f) == JBody(JBody(j)[f])
         IN  Some(Rel(val("fromId"), val("toId"), val("type")))
    ELSE None

(* serde_json::from_str::<LogicalGraph>: Some(graph), or None on any error. *)
graph_from_json(doc) ==
    IF /\ JKind(doc) = "object"
       /\ has_field(doc, "propositions", "array")
       /\ has_field(doc, "relationships", "array")
       /\ \A i \in 1..Len(JBody(JBody(doc)["propositions"])) :
             proposition_from_json(JBody(JBody(doc)["propositions"])[i]) # None
       /\ \A i \in 1..Len(JBody(JBody(doc)["relationships"])) :
             relationship_from_json(JBody(JBody(doc)["relationships"])[i]) # None
    THEN LET ps == JBody(JBody(doc)["propositions"])
             rs == JBody(JBody(doc)["relationships"])
         IN  Some([propositions |-> [i \in 1..Len(ps) |-> proposition_from_json(ps[i]).some],
                   relationships |-> [i \in 1..Len(rs) |-> relationship_from_json(rs[i]).some]])
    ELSE None

(* The object j without its member `name`. *)
without_field(j, name) == JVal("object", [f \in DOMAIN JBody(j) \ {name} |-> JBody(j)[f]])

(* A graph of one claim and one relationship, the base of the documents    *)
(* below.                                                                  *)
SampleGraph ==
    [propositions |-> <<make_prop(IdOrder[1], "claim", "high")>>,
     relationships |-> <<Rel(IdOrder[1], IdOrder[1], "supports")>>]

(* Documents that serde_json rejects: no JSON, a JSON value that is no     *)
(* object, a missing or mistyped member of the graph, of a proposition or  *)
(* of a relationship.                                                      *)
MalformedDocuments ==
    LET doc == graph_to_json(SampleGraph)
        p == prop_to_json(SampleGraph.propositions[1])
        r == rel_to_json(SampleGraph.relationships[1])
        with_prop(q) == JVal("object", [JBody(doc) EXCEPT !["propositions"] = JVal("array", <<q>>)])
        with_rel(q) == JVal("object", [JBody(doc) EXCEPT !["relationships"] = JVal("array", <<q>>)])
    IN  {JVal("invalid", <<>>),
         JVal("array", <<>>),
         JVal("null", <<>>),
         without_field(doc, "propositions"),
         without_field(doc, "relationships"),
         JVal("object", [JBody(doc) EXCEPT !["propositions"] = JVal("string", <<>>)]),
         with_prop(without_field(p, "isAnchored")),
         with_prop(without_field(p, "isImplicit")),
         with_prop(JVal("object", [JBody(p) EXCEPT !["isLoadBearing"] = JVal("string", <<>>)])),
         with_prop(JVal("string", <<>>)),
         with_rel(without_field(r, "toId")),
         with_rel(without_field(r, "strength")),
         with_rel(JVal("object", [JBody(r) EXCEPT !["label"] = JVal("bool", TRUE)]))}

(* Documents that decode although they are not what graph_to_json writes:  *)
(* a relationship without a label, or with a label string.                 *)
VariantDocuments ==
    LET doc == graph_to_json(SampleGraph)
        r == rel_to_json(SampleGraph.relationships[1])
        with_rel(q) == JVal("object", [JBody(doc) EXCEPT !["relationships"] = JVal("array", <<q>>)])
    IN  {with_rel(without_field(r, "label")),
         with_rel(JVal("object", [JBody(r) EXCEPT !["label"] = JVal("string", <<"l">>)]))}

(* Documents for termination: the empty graph, and two claims with        *)
(* MaxLiveRels dependency relationships drawn from a self-loop, the two    *)
(* relationships of a cycle, and a relationship whose source is missing    *)
(* (the same relationship twice is a pair of parallel relationships); and  *)
(* the documents that do not decode.                                       *)
TerminationGraphs ==
    LET rels == {Rel(IdOrder[1], IdOrder[1], "supports"),
                 Rel(IdOrder[1], IdOrder[2], "supports"),
                 Rel(IdOrder[2], IdOrder[1], "supports"),
                 Rel(IdOrder[MaxLiveIds + 1], IdOrder[2], "supports")}
    IN  {[propositions |-> <<>>, relationships |-> <<>>]}
        \cup [propositions : {[i \in 1..MaxLiveIds |-> make_prop(IdOrder[i], "claim", "high")]},
              relationships : [1..MaxLiveRels -> rels]]

TerminationDocuments ==
    {graph_to_json(g) : g \in TerminationGraphs} \cup MalformedDocuments

(* The graph of test_full_founder_pivot_scenario, its texts shortened: a   *)
(* load-bearing claim with two supporting propositions, a dependency on an *)
(* unsupported load-bearing assumption, and a constraint contradicting it. *)
FounderPivotGraph ==
    [propositions |->
        <<Prop(IdOrder[1], "claim", "high", TRUE, FALSE, <<"s">>, <<"e">>),
          Prop(IdOrder[2], "evidence", "high", FALSE, FALSE, <<"s">>, <<"e">>),
          Prop(IdOrder[3], "evidence", "medium", FALSE, FALSE, <<"s">>, <<"e">>),
          Prop(IdOrder[4], "assumption", "unstated_as_absolute", TRUE, TRUE, <<"s">>, <<"e">>),
          Prop(IdOrder[5], "constraint", "high", FALSE, FALSE, <<"s">>, <<"e">>)>>,
     relationships |->
        <<Rel(IdOrder[2], IdOrder[1], "supports"),
          Rel(IdOrder[3], IdOrder[1], "supports"),
          Rel(IdOrder[1], IdOrder[4], "depends_on"),
          Rel(IdOrder[5], IdOrder[1], "contradicts")>>]

(* The graph of test_triangle_cycle: three propositions, each supporting   *)
(* the next and the last supporting the first.                             *)
TriangleGraph ==
    [propositions |->
        <<make_prop(IdOrder[1], "claim", "high"),
          make_prop(IdOrder[2], "evidence", "high"),
          make_prop(IdOrder[3], "evidence", "high")>>,
     relationships |->
        <<Rel(IdOrder[1], IdOrder[2], "supports"),
          Rel(IdOrder[2], IdOrder[3], "supports"),
          Rel(IdOrder[3], IdOrder[1], "supports")>>]

Documents ==
    {graph_to_json(g) : g \in StructureGraphs \cup {FounderPivotGraph, TriangleGraph}}
    \cup MalformedDocuments \cup VariantDocuments

(***************************************************************************)
(* The pipeline of analyze_native (lib.rs), one action per stage.          *)
(***************************************************************************)
(* The state on entry to a stage: the whole pipeline starts at its first   *)
(* stage; a stage called on its own, as its unit tests call it, starts     *)
(* with the graph as its argument and nothing else computed.               *)
InitAt(graphs, stage) ==
    /\ graph \in graphs
    /\ graph_json = graph_to_json(graph)
    /\ returned = None
    /\ pc = stage
    /\ contradictions = <<>>
    /\ cycles = <<>>
    /\ topo_order = <<>>
    /\ centrality = <<>>
    /\ scores = <<>>
    /\ fallacies = <<>>
    /\ biases = <<>>
    /\ expression = <<>>
    /\ variables = {}

(* serde_json::from_str, and the early return of its error with the        *)
(* prefix "Parse error: ".                                                 *)
ParseInput ==
    /\ pc = "parse"
    /\ LET parsed == graph_from_json(graph_json) IN
          IF parsed # None
          THEN graph' = parsed.some /\ pc' = "contradictions" /\ returned' = returned
          ELSE graph' = graph /\ pc' = "returned" /\ returned' = [err |-> "Parse error: "]
    /\ UNCHANGED <<graph_json, contradictions, cycles, topo_order, centrality, scores,
                   fallacies, biases, expression, variables>>

DetectContradictions ==
    /\ pc = "contradictions"
    /\ contradictions' = detect_contradictions(graph)
    /\ pc' = "cycles"
    /\ UNCHANGED <<graph_json, graph, cycles, topo_order, centrality, scores, fallacies, biases, returned, expression, variables>>

(* A depth-first search that never returns: the stage takes steps without *)
(* ever leaving it.                                                        *)
DetectCyclesNeverReturns ==
    /\ pc = "cycles"
    /\ UNCHANGED vars

DetectCycles ==
    /\ pc = "cycles"
    /\ cycles' = detect_cycles(graph)
    /\ pc' = "topo"
    /\ UNCHANGED <<graph_json, graph, contradictions, topo_order, centrality, scores, fallacies, biases, returned, expression, variables>>

(* The HashMap in_degree is iterated in an order the program does not      *)
(* control.                                                                *)
TopologicalSort ==
    /\ pc = "topo"
    /\ \E hash_order \in HashOrders(DOMAIN in_degree_of(graph)) :
          topo_order' = topological_sort(graph, hash_order)
    /\ pc' = "centrality"
    /\ UNCHANGED <<graph_json, graph, contradictions, cycles, centrality, scores, fallacies, biases, returned, expression, variables>>

BetweennessCentrality ==
    /\ pc = "centrality"
    /\ centrality' = betweenness_centrality(graph)
    /\ pc' = "scores"
    /\ UNCHANGED <<graph_json, graph, contradictions, cycles, topo_order, scores, fallacies, biases, returned, expression, variables>>

ScoreArguments ==
    /\ pc = "scores"
    /\ scores' = score_arguments(graph, contradictions, centrality)
    /\ pc' = "fallacies"
    /\ UNCHANGED <<graph_json, graph, contradictions, cycles, topo_order, centrality, fallacies, biases, returned, expression, variables>>

DetectFallacies ==
    /\ pc = "fallacies"
    /\ fallacies' = detect_fallacies(graph, cycles)
    /\ pc' = "biases"
    /\ UNCHANGED <<graph_json, graph, contradictions, cycles, topo_order, centrality, scores, biases, returned, expression, variables>>

DetectBiases ==
    /\ pc = "biases"
    /\ biases' = detect_biases(graph, centrality)
    /\ pc' = "done"
    /\ UNCHANGED <<graph_json, graph, contradictions, cycles, topo_order, centrality, scores, fallacies, returned, expression, variables>>

(* The AnalysisResult of the stage results, as serde_json writes it. *)
analysis_result ==
    JVal("object",
         [contradictions |-> contradictions,
          fallacies |-> fallacies,
          biases |-> biases,
          argumentScores |-> scores,
          cycles |-> cycles,
          topologicalOrder |-> topo_order])

(* serde_json::to_string(&result): it has no failing case for these types. *)
Serialize ==
    /\ pc = "done"
    /\ returned' = [ok |-> analysis_result]
    /\ pc' = "returned"
    /\ UNCHANGED <<graph_json, graph, contradictions, cycles, topo_order, centrality, scores,
                   fallacies, biases, expression, variables>>

Next ==
    \/ ParseInput
    \/ DetectContradictions
    \/ DetectCycles
    \/ TopologicalSort
    \/ BetweennessCentrality
    \/ ScoreArguments
    \/ DetectFallacies
    \/ DetectBiases
    \/ Serialize

(* analyze_native is called with a JSON text; nothing is computed yet. *)
Init ==
    /\ graph_json \in Documents
    /\ graph = None
    /\ returned = None
    /\ pc = "parse"
    /\ contradictions = <<>>
    /\ cycles = <<>>
    /\ topo_order = <<>>
    /\ centrality = <<>>
    /\ scores = <<>>
    /\ fallacies = <<>>
    /\ biases = <<>>
    /\ expression = <<>>
    /\ variables = {}

Spec == Init /\ [][Next]_vars

(* analyze_native runs to its return: the call is never suspended, so a    *)
(* stage that can take a step does take it.                                *)
InitLive ==
    /\ graph_json \in TerminationDocuments
    /\ graph = None
    /\ returned = None
    /\ pc = "parse"
    /\ contradictions = <<>>
    /\ cycles = <<>>
    /\ topo_order = <<>>
    /\ centrality = <<>>
    /\ scores = <<>>
    /\ fallacies = <<>>
    /\ biases = <<>>
    /\ expression = <<>>
    /\ variables = {}

SpecLive == InitLive /\ [][Next]_vars /\ WF_vars(Next)

(* detect_cycles called on its own. *)
InitCycles == InitAt(CycleGraphs, "cycles")

NextCycles == DetectCycles

SpecCycles == InitCycles /\ [][NextCycles]_vars

(* detect_cycles, then topological_sort, on the same graph. *)
InitOrder == InitAt(OrderGraphs, "cycles")

NextOrder == DetectCycles \/ TopologicalSort

SpecOrder == InitOrder /\ [][NextOrder]_vars

(* betweenness_centrality called on its own. *)
InitCentrality == InitAt(CentralityGraphs, "centrality")

NextCentrality == BetweennessCentrality

SpecCentrality == InitCentrality /\ [][NextCentrality]_vars

(* detect_contradictions called on its own. *)
InitContradictions == InitAt(ContradictionGraphs, "contradictions")

NextContradictions == DetectContradictions

SpecContradictions == InitContradictions /\ [][NextContradictions]_vars

(* detect_biases called on its own, with an empty centrality map. *)
InitBiases == InitAt(BiasGraphs, "biases")

NextBiases == DetectBiases

SpecBiases == InitBiases /\ [][NextBiases]_vars

(* score_arguments called on its own, with any contradictions and any      *)
(* centrality map as its arguments.                                        *)
InitScore ==
    /\ graph \in ScoreGraphs
    /\ graph_json = graph_to_json(graph)
    /\ returned = None
    /\ contradictions \in ScoreContradictions
    /\ centrality \in ScoreCentralities
    /\ pc = "scores"
    /\ cycles = <<>>
    /\ topo_order = <<>>
    /\ scores = <<>>
    /\ fallacies = <<>>
    /\ biases = <<>>
    /\ expression = <<>>
    /\ variables = {}

NextScore == ScoreArguments

SpecScore == InitScore /\ [][NextScore]_vars

(* detect_fallacies and detect_biases called in turn, as analyze_native    *)
(* calls them, on a graph with its cycles and any centrality map.          *)
InitFindings ==
    /\ graph \in FindingGraphs
    /\ graph_json = graph_to_json(graph)
    /\ returned = None
    /\ contradictions = <<>>
    /\ cycles = detect_cycles(graph)
    /\ centrality \in FindingCentralities
    /\ pc = "fallacies"
    /\ topo_order = <<>>
    /\ scores = <<>>
    /\ fallacies = <<>>
    /\ biases = <<>>
    /\ expression = <<>>
    /\ variables = {}

SpecFindings == InitFindings /\ [][DetectFallacies \/ DetectBiases]_vars

(* extract_variables called on its own on any expression. *)
ExtractVariables ==
    /\ pc = "extract"
    /\ variables' = extract_variables(expression)
    /\ pc' = "extracted"
    /\ UNCHANGED <<graph_json, graph, contradictions, cycles, topo_order, centrality, scores,
                   fallacies, biases, returned, expression>>

InitVariables ==
    /\ expression \in Expressions
    /\ variables = {}
    /\ pc = "extract"
    /\ graph = [propositions |-> <<>>, relationships |-> <<>>]
    /\ graph_json = graph_to_json(graph)
    /\ returned = None
    /\ contradictions = <<>>
    /\ cycles = <<>>
    /\ topo_order = <<>>
    /\ centrality = <<>>
    /\ scores = <<>>
    /\ fallacies = <<>>
    /\ biases = <<>>

SpecVariables == InitVariables /\ [][ExtractVariables]_vars

(***************************************************************************)
(* Vocabulary of the properties, defined on the input graph alone.         *)
(***************************************************************************)
DependencyKinds == {"supports", "depends_on", "assumes"}

AdversarialKinds == {"contradicts", "attacks"}

CyclesDone == pc \in {"topo", "centrality", "scores", "fallacies", "biases", "done"}

TopoDone == pc \in {"centrality", "scores", "fallacies", "biases", "done"}

CentralityDone == pc \in {"scores", "fallacies", "biases", "done"}

(* The dependency relationships of g, as a set of indices. *)
DepIdx(g) == {i \in 1..Len(g.relationships) : g.relationships[i].rel_type \in DependencyKinds}

DepEdge(g, u, v) ==
    \E i \in DepIdx(g) : g.relationships[i].from_id = u /\ g.relationships[i].to_id = v

(* Every relationship endpoint names a proposition. *)
WellFormed(g) ==
    \A i \in 1..Len(g.relationships) :
        g.relationships[i].from_id \in PropIds(g) /\ g.relationships[i].to_id \in PropIds(g)

(* c is a simple directed cycle of dependency relationships between        *)
(* propositions of g.                                                      *)
IsSimpleCycle(g, c) ==
    /\ Len(c) >= 1
    /\ \A i \in 1..Len(c) : c[i] \in PropIds(g)
    /\ \A i, j \in 1..Len(c) : i # j => c[i] # c[j]
    /\ \A i \in 1..Len(c) : DepEdge(g, c[i], c[(i % Len(c)) + 1])

SimpleCycles(g) == {c \in InjectiveSeqs(PropIds(g)) : IsSimpleCycle(g, c)}

IsRotation(c, d) ==
    /\ Len(c) = Len(d)
    /\ Len(c) >= 1
    /\ \E k \in 0..(Len(c) - 1) : \A i \in 1..Len(c) : d[i] = c[((i - 1 + k) % Len(c)) + 1]

(* The nodes reachable from the set S along dependency relationships       *)
(* (S included).                                                           *)
RECURSIVE ReachableFrom(_, _)
ReachableFrom(g, S) ==
    LET step == S \cup {g.relationships[i].to_id : i \in {k \in DepIdx(g) : g.relationships[k].from_id \in S}}
    IN  IF step = S THEN S ELSE ReachableFrom(g, step)

(* v lies on a cycle of dependency relationships. *)
OnCycle(g, v) ==
    \E i \in DepIdx(g) :
        g.relationships[i].from_id = v /\ v \in ReachableFrom(g, {g.relationships[i].to_id})

(* The ids topological_sort knows: propositions and dependency targets. *)
KnownNodes(g) == PropIds(g) \cup {g.relationships[i].to_id : i \in DepIdx(g)}

(* Nodes that can never be emitted: those on a cycle, and the from_ids     *)
(* that are neither a proposition nor a dependency target.                 *)
BlockedRoots(g) ==
    {v \in KnownNodes(g) : OnCycle(g, v)}
    \cup ({g.relationships[i].from_id : i \in DepIdx(g)} \ KnownNodes(g))

(* The graph with its contradicts and attacks relationships removed. *)
StripAdversarial(g) ==
    [g EXCEPT !.relationships = SelectSeq(@, LAMBDA r : r.rel_type \notin AdversarialKinds)]

AllIn(ids, S) == \A k \in 1..Len(ids) : ids[k] \in S

(* The walks of dependency relationships of g from s to t of length len,   *)
(* each a sequence of relationship indices, every node on it a             *)
(* proposition: parallel relationships make different walks.               *)
Walks(g, s, t, len) ==
    {w \in [1..len -> DepIdx(g)] :
        /\ g.relationships[w[1]].from_id = s
        /\ g.relationships[w[len]].to_id = t
        /\ \A k \in 1..len : g.relationships[w[k]].to_id \in PropIds(g)
        /\ \A k \in 1..(len - 1) :
              g.relationships[w[k]].to_id = g.relationships[w[k + 1]].from_id}

(* The shortest paths from s to t: the walks of the least length that has  *)
(* one (a shortest walk repeats no node); empty when t is not reachable.   *)
ShortestPaths(g, s, t) ==
    LET lens == {len \in 1..Len(g.propositions) : Walks(g, s, t, len) # {}}
    IN  IF lens = {} THEN {}
        ELSE Walks(g, s, t, CHOOSE len \in lens : \A other \in lens : len <= other)

(* The shortest paths from s to t that pass through v after s and before t. *)
PathsThrough(g, s, t, v) ==
    {w \in ShortestPaths(g, s, t) :
        \E k \in 1..(Len(w) - 1) : g.relationships[w[k]].to_id = v}

RECURSIVE Betweenness(_, _, _)
(* The directed betweenness of v over the ordered pairs in `pairs`: the    *)
(* sum of the fraction of shortest paths through v, as a rational.         *)
Betweenness(g, v, pairs) ==
    IF pairs = {} THEN RInt(0)
    ELSE LET p    == CHOOSE q \in pairs : TRUE
             all  == Cardinality(ShortestPaths(g, p[1], p[2]))
             thru == Cardinality(PathsThrough(g, p[1], p[2], v))
         IN  RAdd(IF all = 0 THEN RInt(0) ELSE Rat(thru, all),
                  Betweenness(g, v, pairs \ {p}))

(***************************************************************************)
(* Claims.                                                                 *)
(***************************************************************************)
(* C1: detect_cycles finds all simple cycles of the dependency subgraph:   *)
(* every simple directed cycle of dependency relationships between         *)
(* existing propositions is in the returned list, up to rotation.          *)
C1_AllSimpleCyclesFound ==
    CyclesDone =>
        \A c \in SimpleCycles(graph) : \E i \in 1..Len(cycles) : IsRotation(cycles[i], c)

(* C2: every id in a reported cycle, in a contradiction's proposition_ids, *)
(* in a fallacy's affected_node_ids and in a bias's affected_node_ids is   *)
(* the id of a proposition of the input, also when relationships name      *)
(* missing propositions.                                                   *)
C2_AllIdsArePropositions ==
    pc = "done" =>
        /\ \A i \in 1..Len(cycles) : AllIn(cycles[i], PropIds(graph))
        /\ \A i \in 1..Len(contradictions) :
              AllIn(contradictions[i].proposition_ids, PropIds(graph))
        /\ \A i \in 1..Len(fallacies) : AllIn(fallacies[i].affected_node_ids, PropIds(graph))
        /\ \A i \in 1..Len(biases) : AllIn(biases[i].affected_node_ids, PropIds(graph))

(* C3: topological_order contains no proposition that appears in a cycle   *)
(* returned by detect_cycles, and for every dependency relationship u -> v *)
(* whose endpoints both appear in topological_order, u appears before v.   *)
C3_TopoRespectsDependencies ==
    TopoDone =>
        /\ \A i \in 1..Len(cycles) : \A k \in 1..Len(cycles[i]) :
              ~SeqContains(topo_order, cycles[i][k])
        /\ \A r \in DepIdx(graph) : \A i, j \in 1..Len(topo_order) :
              (topo_order[i] = graph.relationships[r].from_id
               /\ topo_order[j] = graph.relationships[r].to_id) => i < j

C3_Witness ==
    /\ pc = "centrality"
    /\ cycles # <<>>
    /\ \E r \in DepIdx(graph) :
          /\ SeqContains(topo_order, graph.relationships[r].from_id)
          /\ SeqContains(topo_order, graph.relationships[r].to_id)

C5_ScoreInUnitInterval ==
    pc = "fallacies" =>
        \A i \in 1..Len(scores) :
            RLeq(RInt(0), scores[i].score) /\ RLeq(scores[i].score, RInt(1))

(* Both clamps engage in one run: one score is cut down to 1 (ten        *)
(* supporting relationships and centrality 1), another is raised to 0 (a   *)
(* contradiction and no support).                                          *)
C5_Witness ==
    /\ pc = "fallacies"
    /\ \E i \in 1..Len(scores) :
          /\ scores[i].evidence_paths >= 10
          /\ scores[i].contradiction_count = 0
          /\ graph.propositions[i].id \in DOMAIN centrality
          /\ centrality[graph.propositions[i].id] = RInt(1)
          /\ scores[i].score = RInt(1)
    /\ \E i \in 1..Len(scores) :
          /\ scores[i].evidence_paths = 0
          /\ scores[i].contradiction_count > 0
          /\ scores[i].score = RInt(0)

(* C6: every centrality value lies in [0,1], every proposition id is a key *)
(* of the result, and all values are 0 when the graph has fewer than 2     *)
(* propositions.                                                           *)
C6_CentralityInUnitInterval ==
    CentralityDone =>
        /\ DOMAIN centrality = PropIds(graph)
        /\ \A id \in DOMAIN centrality :
              RLeq(RInt(0), centrality[id]) /\ RLeq(centrality[id], RInt(1))
        /\ Len(graph.propositions) < 2 => \A id \in DOMAIN centrality : centrality[id] = RInt(0)

C6_Witness ==
    /\ pc = "scores"
    /\ Len(graph.propositions) >= 3
    /\ \E id \in DOMAIN centrality : RLess(RInt(0), centrality[id])
    /\ \E id \in DOMAIN centrality : centrality[id] = RInt(0)

(* C7: no two cycles returned by detect_cycles are rotations of one        *)
(* another, including when the graph has parallel duplicate edges or       *)
(* repeated self-loops.                                                    *)
C7_NoRotationalDuplicates ==
    CyclesDone =>
        \A i, j \in 1..Len(cycles) : i # j => ~IsRotation(cycles[i], cycles[j])

C7_Witness ==
    /\ pc = "topo"
    /\ \E i, j \in DepIdx(graph) :
          /\ i < j
          /\ graph.relationships[i] = graph.relationships[j]
          /\ graph.relationships[i].from_id # graph.relationships[i].to_id
          /\ \E k \in 1..Len(cycles) :
                /\ SeqContains(cycles[k], graph.relationships[i].from_id)
                /\ SeqContains(cycles[k], graph.relationships[i].to_id)

(* C8: every cycle returned by detect_cycles is a simple cycle of the      *)
(* dependency subgraph (length >= 1, no id twice, each consecutive pair    *)
(* and the pair (last, first) joined by a dependency relationship), and a  *)
(* dependency self-loop on a proposition yields a one-node cycle.          *)
C8_CyclesAreSimpleCycles ==
    CyclesDone =>
        /\ \A i \in 1..Len(cycles) : IsSimpleCycle(graph, cycles[i])
        /\ \A p \in PropIds(graph) : DepEdge(graph, p, p) => SeqContains(cycles, <<p>>)

C8_Witness ==
    /\ pc = "topo"
    /\ \E i \in 1..Len(cycles) : Len(cycles[i]) = 1
    /\ \E i \in 1..Len(cycles) : Len(cycles[i]) >= 2

(* C9: contradicts and attacks relationships do not interfere with the     *)
(* graph primitives -- cycles, topological_order and centrality are those  *)
(* of the graph with the same propositions and the same dependency         *)
(* relationships in the same order and no adversarial relationship.  Each  *)
(* result is compared in the state its stage produces; no later stage      *)
(* changes it.                                                             *)
C9_AdversarialEdgesIgnored ==
    /\ pc = "topo" => cycles = detect_cycles(StripAdversarial(graph))
    /\ pc = "centrality" =>
          \A h \in HashOrders(DOMAIN in_degree_of(StripAdversarial(graph))) :
              topo_order = topological_sort(StripAdversarial(graph), h)
    /\ pc = "scores" => centrality = betweenness_centrality(StripAdversarial(graph))

C9_Witness ==
    /\ pc = "scores"
    /\ cycles = <<>>
    /\ Len(topo_order) >= 2
    /\ \E i, j \in 1..Len(graph.relationships) :
          /\ graph.relationships[i].rel_type \in AdversarialKinds
          /\ j \in DepIdx(graph)
          /\ graph.relationships[i].from_id = graph.relationships[j].to_id
          /\ graph.relationships[i].to_id = graph.relationships[j].from_id
          /\ graph.relationships[i].from_id # graph.relationships[i].to_id
          /\ graph.relationships[i].from_id \in PropIds(graph)
          /\ graph.relationships[i].to_id \in PropIds(graph)

(* C10: the analysis is deterministic -- the topological_order of a run is *)
(* the one that every iteration order of the in-degree hash map produces   *)
(* (the only hash map the pipeline iterates to build a result; the         *)
(* adjacency, colour and seen maps are only looked up by key).  Checked in  *)
(* the state the topological sort produces; no later stage changes it.     *)
C10_Deterministic ==
    pc = "centrality" =>
        \A h \in HashOrders(DOMAIN in_degree_of(graph)) :
            topo_order = topological_sort(graph, h)

C10_Witness ==
    /\ pc = "centrality"
    /\ Len(topo_order) >= 2
    /\ Cardinality({k \in DOMAIN in_degree_of(graph) : in_degree_of(graph)[k] = 0}) >= 2

(* C11: score_arguments emits exactly one record per input proposition, in *)
(* proposition input order, for every graph including the empty one.       *)
C11_OneScorePerProposition ==
    pc = "fallacies" =>
        /\ Len(scores) = Len(graph.propositions)
        /\ \A i \in 1..Len(scores) : scores[i].proposition_id = graph.propositions[i].id

C11_Witness ==
    /\ pc = "fallacies"
    /\ Len(graph.propositions) = 3
    /\ \E i \in 1..3 :
          /\ get_relationships_to(graph, graph.propositions[i].id) = <<>>
          /\ get_relationships_from(graph, graph.propositions[i].id) = <<>>
    /\ graph.relationships # <<>>

(* C17: analyze_native returns either an error beginning "Parse error:",   *)
(* with no stage run, or a report carrying the six fields; a document that *)
(* serde_json rejects yields the error, every other document (a graph as   *)
(* its callers write it, the empty graph included) yields the report.      *)
C17_ParseErrorOrReport ==
    /\ pc # "returned" => returned = None
    /\ (pc = "returned" /\ graph_json \in MalformedDocuments) =>
          /\ returned = [err |-> "Parse error: "]
          /\ <<contradictions, cycles, topo_order, centrality, scores, fallacies, biases>>
                = <<<<>>, <<>>, <<>>, <<>>, <<>>, <<>>, <<>>>>
    /\ (pc = "returned" /\ graph_json \notin MalformedDocuments) =>
          /\ DOMAIN returned = {"ok"}
          /\ DOMAIN JBody(returned.ok) =
                {"contradictions", "fallacies", "biases", "argumentScores", "cycles",
                 "topologicalOrder"}

C17_Witness ==
    /\ pc = "returned"
    /\ DOMAIN returned = {"err"}
    /\ JKind(graph_json) = "object"
    /\ has_field(graph_json, "propositions", "array")
    /\ has_field(graph_json, "relationships", "array")

(***************************************************************************)
(* C12: strategy 1 emits exactly one contradiction per contradicts         *)
(* relationship whose two endpoints both exist, in relationship order,     *)
(* with type logical, proposition_ids = [from, to] and severity critical   *)
(* when at least one endpoint is load-bearing, major otherwise; a          *)
(* contradicts relationship with a missing endpoint emits nothing.  The    *)
(* explicit records are the first records of the result.                   *)
(***************************************************************************)
C12_ExplicitContradictions ==
    pc = "cycles" =>
        LET emitting == SelectSeq(graph.relationships,
                                  LAMBDA r : /\ r.rel_type = "contradicts"
                                             /\ r.from_id \in PropIds(graph)
                                             /\ r.to_id \in PropIds(graph))
            explicit == SelectSeq(contradictions,
                                  LAMBDA c : c.id.kind = "contradiction-explicit")
        IN  /\ Len(explicit) = Len(emitting)
            /\ \A i \in 1..Len(emitting) :
                  /\ contradictions[i] = explicit[i]
                  /\ explicit[i].proposition_ids = <<emitting[i].from_id, emitting[i].to_id>>
                  /\ explicit[i].contradiction_type = "logical"
                  /\ explicit[i].severity =
                        IF \E k \in 1..Len(graph.propositions) :
                              /\ graph.propositions[k].id \in
                                    {emitting[i].from_id, emitting[i].to_id}
                              /\ graph.propositions[k].is_load_bearing
                        THEN "critical" ELSE "major"

(* A contradicts relationship with a missing endpoint comes first and      *)
(* emits nothing; the one after it joins a load-bearing proposition and    *)
(* one that is not, and emits the only explicit record.                    *)
C12_Witness ==
    /\ pc = "cycles"
    /\ Len(graph.relationships) = 2
    /\ graph.relationships[1].rel_type = "contradicts"
    /\ graph.relationships[1].to_id \notin PropIds(graph)
    /\ graph.relationships[2].rel_type = "contradicts"
    /\ graph.relationships[2].from_id # graph.relationships[2].to_id
    /\ \E k \in 1..Len(contradictions) :
          /\ contradictions[k].id.kind = "contradiction-explicit"
          /\ contradictions[k].severity = "critical"
          /\ contradictions[k].proposition_ids =
                <<graph.relationships[2].from_id, graph.relationships[2].to_id>>
    /\ \E i, j \in 1..Len(graph.propositions) :
          graph.propositions[i].is_load_bearing /\ ~graph.propositions[j].is_load_bearing

(***************************************************************************)
(* C13 as stated: the k-th record emitted by a strategy has the number k,  *)
(* counted within that strategy alone.                                     *)
(***************************************************************************)
C13_PerKindCounters ==
    pc = "cycles" =>
        \A i \in 1..Len(contradictions) :
            contradictions[i].id.n =
                Cardinality({j \in 1..i : contradictions[j].id.kind = contradictions[i].id.kind})

(***************************************************************************)
(* C13: the records come in the order explicit, temporal, logical,         *)
(* resource, and one counter numbers all of them: the record at position k *)
(* of the whole result has the id contradiction-<strategy>-k.              *)
(***************************************************************************)
C13_SharedCounter ==
    pc = "cycles" =>
        LET rank(c) == CASE c.id.kind = "contradiction-explicit" -> 1
                         [] c.id.kind = "contradiction-temporal" -> 2
                         [] c.id.kind = "contradiction-logical"  -> 3
                         [] c.id.kind = "contradiction-resource" -> 4
        IN  /\ \A i \in 1..Len(contradictions) : contradictions[i].id.n = i
            /\ \A i, j \in 1..Len(contradictions) :
                  i < j => rank(contradictions[i]) <= rank(contradictions[j])

(* Strategy 1 emits one record and a later strategy emits the second one. *)
C13_Witness ==
    /\ pc = "cycles"
    /\ Len(contradictions) = 2
    /\ contradictions[1].id.kind = "contradiction-explicit"
    /\ contradictions[2].id.kind \in {"contradiction-temporal", "contradiction-logical"}

(***************************************************************************)
(* The position in topo_order at which the node v becomes ready: 0 when it *)
(* has no incoming dependency relationship, else the position of the last  *)
(* emitted source of a dependency relationship into v.                     *)
(***************************************************************************)
ReleasedAt(v) ==
    LET sources == {graph.relationships[r].from_id :
                        r \in {k \in DepIdx(graph) : graph.relationships[k].to_id = v}}
        at == {i \in 1..Len(topo_order) : topo_order[i] \in sources}
    IN  IF at = {} THEN 0 ELSE CHOOSE i \in at : \A j \in at : j <= i

(* The nodes not emitted before position i whose dependency sources have   *)
(* all been emitted before position i.                                     *)
ReadyBefore(i) ==
    {v \in KnownNodes(graph) \ {topo_order[k] : k \in 1..(i - 1)} :
        \A r \in DepIdx(graph) :
            graph.relationships[r].to_id = v =>
                \E k \in 1..(i - 1) : topo_order[k] = graph.relationships[r].from_id}

(***************************************************************************)
(* C14 as stated: at every step the node emitted is the lexicographically  *)
(* smallest of the not-yet-emitted nodes whose remaining dependency        *)
(* in-degree is zero.                                                      *)
(***************************************************************************)
C14_SmallestReadyFirst ==
    TopoDone =>
        \A i \in 1..Len(topo_order) :
            /\ topo_order[i] \in ReadyBefore(i)
            /\ \A v \in ReadyBefore(i) : ~IdLess(v, topo_order[i])

(***************************************************************************)
(* C14: the queue is first-in first-out.  Every emitted node was ready     *)
(* when emitted; the nodes are emitted in the order in which they became   *)
(* ready, and lexicographic order decides only between nodes that became   *)
(* ready together (the nodes ready at the start, and the neighbours        *)
(* released by the same emitted node).                                     *)
(***************************************************************************)
C14_FifoSortedBatches ==
    TopoDone =>
        /\ \A i \in 1..Len(topo_order) : topo_order[i] \in ReadyBefore(i)
        /\ \A i, j \in 1..Len(topo_order) :
              i < j =>
                 \/ ReleasedAt(topo_order[i]) < ReleasedAt(topo_order[j])
                 \/ /\ ReleasedAt(topo_order[i]) = ReleasedAt(topo_order[j])
                    /\ IdLess(topo_order[i], topo_order[j])

(* A node released by an emitted node waits behind a node with a greater   *)
(* id that was ready from the start.                                       *)
C14_Witness ==
    /\ pc = "centrality"
    /\ \E i, j \in 1..Len(topo_order) :
          /\ i < j
          /\ IdLess(topo_order[j], topo_order[i])
          /\ ReleasedAt(topo_order[i]) = 0
          /\ ReleasedAt(topo_order[j]) > 0
          /\ ReleasedAt(topo_order[j]) < i

(***************************************************************************)
(* C15: in a full analysis the record of every proposition p has           *)
(* evidence_paths = the number of supports relationships into p,           *)
(* contradiction_count = the number of contradictions of the same analysis *)
(* whose proposition_ids contain p, and score = clamp(evidence_paths /     *)
(* (evidence_paths + 1) - 0.3 * contradiction_count - 0.2 *                *)
(* vulnerable_assumptions + 0.1 * centrality[p], 0, 1), with the           *)
(* centrality of the same analysis (0 when p has no entry).                *)
(***************************************************************************)
C15_ScoreFromSameAnalysis ==
    pc = "fallacies" =>
        \A i \in 1..Len(scores) :
            LET p  == graph.propositions[i].id
                ep == Cardinality({r \in 1..Len(graph.relationships) :
                                      /\ graph.relationships[r].to_id = p
                                      /\ graph.relationships[r].rel_type = "supports"})
                cc == Cardinality({k \in 1..Len(contradictions) :
                                      \E m \in 1..Len(contradictions[k].proposition_ids) :
                                          contradictions[k].proposition_ids[m] = p})
                cent == IF p \in DOMAIN centrality THEN centrality[p] ELSE RInt(0)
                raw == RAdd(RSub(RSub(Rat(ep, ep + 1), Rat(3 * cc, 10)),
                                 Rat(2 * scores[i].vulnerable_assumptions, 10)),
                            RDiv(cent, RInt(10)))
            IN  /\ scores[i].evidence_paths = ep
                /\ scores[i].contradiction_count = cc
                /\ scores[i].score = IF RLess(raw, RInt(0)) THEN RInt(0)
                                     ELSE IF RLess(RInt(1), raw) THEN RInt(1)
                                     ELSE raw

(* One proposition of a full analysis is supported, contradicted, depends  *)
(* on a vulnerable assumption and has a positive centrality, and its score *)
(* lies strictly between 0 and 1.                                          *)
C15_Witness ==
    /\ pc = "fallacies"
    /\ \E i \in 1..Len(scores) :
          /\ scores[i].evidence_paths >= 2
          /\ scores[i].contradiction_count >= 1
          /\ scores[i].vulnerable_assumptions >= 1
          /\ scores[i].proposition_id \in DOMAIN centrality
          /\ RLess(RInt(0), centrality[scores[i].proposition_id])
          /\ RLess(RInt(0), scores[i].score)
          /\ RLess(scores[i].score, RInt(1))

(***************************************************************************)
(* C16 as stated: every proposition with no incoming supports relationship *)
(* receives a score strictly below 0.1.                                    *)
(***************************************************************************)
C16_UnsupportedBelowTenth ==
    pc = "fallacies" =>
        \A i \in 1..Len(scores) :
            (\A r \in 1..Len(graph.relationships) :
                ~(/\ graph.relationships[r].to_id = graph.propositions[i].id
                  /\ graph.relationships[r].rel_type = "supports"))
            => RLess(scores[i].score, Rat(1, 10))

(***************************************************************************)
(* C16: every proposition with no incoming supports relationship receives  *)
(* a score of at most 0.1, and of exactly 0.1 only when its centrality is  *)
(* 1 and it has no contradiction and no vulnerable assumption.             *)
(***************************************************************************)
C16_UnsupportedAtMostTenth ==
    pc = "fallacies" =>
        \A i \in 1..Len(scores) :
            (\A r \in 1..Len(graph.relationships) :
                ~(/\ graph.relationships[r].to_id = graph.propositions[i].id
                  /\ graph.relationships[r].rel_type = "supports"))
            => /\ scores[i].evidence_paths = 0
               /\ RLeq(scores[i].score, Rat(1, 10))
               /\ scores[i].score = Rat(1, 10) =>
                     /\ graph.propositions[i].id \in DOMAIN centrality
                     /\ centrality[graph.propositions[i].id] = RInt(1)
                     /\ scores[i].contradiction_count = 0
                     /\ scores[i].vulnerable_assumptions = 0

(* An unsupported proposition with an incoming dependency relationship and *)
(* centrality 1 scores exactly 0.1, and another unsupported one with a     *)
(* penalty scores 0.                                                       *)
C16_Witness ==
    /\ pc = "fallacies"
    /\ \E i, j \in 1..Len(scores) :
          /\ scores[i].evidence_paths = 0
          /\ scores[i].score = Rat(1, 10)
          /\ \E r \in 1..Len(graph.relationships) :
                graph.relationships[r].to_id = scores[i].proposition_id
          /\ scores[j].evidence_paths = 0
          /\ scores[j].contradiction_count + scores[j].vulnerable_assumptions > 0
          /\ scores[j].score = RInt(0)

(***************************************************************************)
(* C18: every pass terminates on every finite graph, cycles, self-loops,   *)
(* parallel relationships and missing endpoints included: each stage that  *)
(* is entered hands over to the next one, so every call of analyze_native  *)
(* returns.                                                                *)
(***************************************************************************)
C18_EveryPassTerminates ==
    /\ (pc = "contradictions") ~> (pc = "cycles")
    /\ (pc = "cycles") ~> (pc = "topo")
    /\ (pc = "topo") ~> (pc = "centrality")
    /\ (pc = "centrality") ~> (pc = "scores")
    /\ (pc = "scores") ~> (pc = "fallacies")
    /\ (pc = "fallacies") ~> (pc = "biases")
    /\ (pc = "biases") ~> (pc = "done")
    /\ <>(pc = "returned" /\ returned # None)

(* An analysis has returned its report for a graph with a dependency       *)
(* self-loop (a cycle) and a dependency relationship whose source is       *)
(* missing.                                                                *)
C18_Witness ==
    /\ pc = "returned"
    /\ DOMAIN returned = {"ok"}
    /\ cycles # <<>>
    /\ \E i, j \in DepIdx(graph) :
          /\ graph.relationships[i].from_id = graph.relationships[i].to_id
          /\ graph.relationships[i].from_id \in PropIds(graph)
          /\ graph.relationships[j].from_id \notin PropIds(graph)
          /\ graph.relationships[j].to_id \in PropIds(graph)

(***************************************************************************)
(* C19: a Confirmation Bias record is emitted for a claim exactly when the *)
(* claim has at least two incoming supports relationships and no incoming  *)
(* contradicts or attacks relationship; its affected_node_ids are the      *)
(* claim followed by the sources of its supports relationships.  A claim   *)
(* with the same supports and one incoming contradicts or attacks          *)
(* relationship has no record.                                             *)
(***************************************************************************)
C19_ConfirmationBiasExactly ==
    pc = "done" =>
        \A i \in 1..Len(graph.propositions) :
            LET p == graph.propositions[i]
                incoming == SelectSeq(graph.relationships, LAMBDA r : r.to_id = p.id)
                supports == SelectSeq(incoming, LAMBDA r : r.rel_type = "supports")
                challenged == \E k \in 1..Len(incoming) :
                                  incoming[k].rel_type \in {"contradicts", "attacks"}
                records == {k \in 1..Len(biases) :
                               /\ biases[k].name = "Confirmation Bias"
                               /\ biases[k].affected_node_ids[1] = p.id}
            IN  IF p.prop_type = "claim" /\ Len(supports) >= 2 /\ ~challenged
                THEN /\ Cardinality(records) = 1
                     /\ \A k \in records :
                           biases[k].affected_node_ids =
                               <<p.id>> \o [j \in 1..Len(supports) |-> supports[j].from_id]
                ELSE records = {}

(* A claim with supports relationships from two different sources has its  *)
(* record, next to a proposition that has none.                            *)
C19_Witness ==
    /\ pc = "done"
    /\ Len(graph.propositions) = 2
    /\ \E k \in 1..Len(biases) :
          /\ biases[k].name = "Confirmation Bias"
          /\ Len(biases[k].affected_node_ids) = 3
          /\ biases[k].affected_node_ids[2] # biases[k].affected_node_ids[3]

C21_SeverityFromCentrality ==
    pc = "done" =>
        \A k \in 1..Len(biases) :
            LET subject == biases[k].affected_node_ids[1]
                known   == subject \in DOMAIN centrality
                num     == centrality[subject][1]
                den     == centrality[subject][2]
            IN  /\ biases[k].system = 1
                /\ biases[k].severity =
                       IF known /\ 10 * num > 3 * den THEN "high"
                       ELSE IF known /\ 10 * num > den THEN "medium"
                       ELSE "low"

(* The first id has centrality exactly 3/10 and is the subject of a record *)
(* of medium severity, and a record about a node with no centrality entry  *)
(* has low severity.                                                       *)
C21_Witness ==
    /\ pc = "done"
    /\ IdOrder[1] \in DOMAIN centrality
    /\ centrality[IdOrder[1]] = Rat(3, 10)
    /\ \E k, l \in 1..Len(biases) :
          /\ biases[k].affected_node_ids[1] = IdOrder[1]
          /\ biases[k].severity = "medium"
          /\ biases[l].affected_node_ids[1] \notin DOMAIN centrality
          /\ biases[l].severity = "low"

(***************************************************************************)
(* C30: in every report, the subject (first affected node) of each         *)
(* false_dilemma fallacy is also the subject of a Confirmation Bias        *)
(* record, and no node is the subject of a hasty_generalization fallacy    *)
(* together with a false_dilemma fallacy or with a Confirmation Bias       *)
(* record.                                                                 *)
(***************************************************************************)
C30_DilemmaImpliesConfirmation ==
    pc = "done" =>
        LET subjects_of_fallacy(pattern) ==
                {fallacies[k].affected_node_ids[1] :
                    k \in {j \in 1..Len(fallacies) : fallacies[j].pattern_type = pattern}}
            confirmation ==
                {biases[k].affected_node_ids[1] :
                    k \in {j \in 1..Len(biases) : biases[j].name = "Confirmation Bias"}}
            hasty   == subjects_of_fallacy("hasty_generalization")
            dilemma == subjects_of_fallacy("false_dilemma")
        IN  /\ dilemma \subseteq confirmation
            /\ hasty \cap dilemma = {}
            /\ hasty \cap confirmation = {}

(* A report with a false_dilemma fallacy about a claim of high confidence  *)
(* (the confidence hasty_generalization asks for) and a Confirmation Bias  *)
(* record about the same claim.                                            *)
C30_Witness ==
    /\ pc = "done"
    /\ \E k \in 1..Len(fallacies), l \in 1..Len(biases), i \in 1..Len(graph.propositions) :
          /\ fallacies[k].pattern_type = "false_dilemma"
          /\ biases[l].name = "Confirmation Bias"
          /\ biases[l].affected_node_ids[1] = fallacies[k].affected_node_ids[1]
          /\ graph.propositions[i].id = fallacies[k].affected_node_ids[1]
          /\ graph.propositions[i].confidence = "high"

(***************************************************************************)
(* C22: in a full analysis the fallacies list begins with exactly one      *)
(* record of pattern_type "cycle" per entry of cycles, in the same order   *)
(* and with that cycle as affected_node_ids, and no later fallacy has      *)
(* pattern_type "cycle".  When the dependency relationships form a ring    *)
(* over the n propositions, cycles holds one cycle of length n, there is   *)
(* one cycle fallacy, and topological_order is empty.                      *)
(***************************************************************************)
C22_CycleFallaciesFirst ==
    pc \in {"biases", "done"} =>
        LET n == Len(graph.propositions)
            is_ring ==
                /\ n >= 1
                /\ Cardinality(PropIds(graph)) = n
                /\ Cardinality(DepIdx(graph)) = n
                /\ \A i \in DepIdx(graph) :
                      /\ graph.relationships[i].from_id \in PropIds(graph)
                      /\ graph.relationships[i].to_id \in PropIds(graph)
                /\ \A p \in PropIds(graph) :
                      /\ Cardinality({i \in DepIdx(graph) :
                                         graph.relationships[i].from_id = p}) = 1
                      /\ ReachableFrom(graph, {p}) = PropIds(graph)
        IN  /\ Len(fallacies) >= Len(cycles)
            /\ \A k \in 1..Len(fallacies) :
                  IF k <= Len(cycles)
                  THEN /\ fallacies[k].pattern_type = "cycle"
                       /\ fallacies[k].affected_node_ids = cycles[k]
                  ELSE fallacies[k].pattern_type # "cycle"
            /\ is_ring =>
                  /\ Len(cycles) = 1
                  /\ Len(cycles[1]) = n
                  /\ topo_order = <<>>

(* A full analysis with two cycles and a further fallacy after their two   *)
(* records.                                                                *)
C22_Witness ==
    /\ pc = "done"
    /\ Len(cycles) = 2
    /\ cycles[1] # cycles[2]
    /\ Len(fallacies) > 2

(***************************************************************************)
(* C23: in the urgency branch of the temporal strategy the proposition the *)
(* explanation names as urgent carries an urgency marker in its statement, *)
(* the one it names as lengthy carries a long-duration marker, and the two *)
(* are the two different propositions of the pair.                         *)
(***************************************************************************)
C23_UrgencyNamesBothPropositions ==
    pc = "cycles" =>
        \A k \in 1..Len(contradictions) :
            LET c == contradictions[k]
                statement_of(id) ==
                    to_lowercase(
                        (CHOOSE p \in Range(graph.propositions) : p.id = id).statement)
            IN  (c.contradiction_type = "temporal" /\ c.human_explanation.template = "urgency")
                => /\ contains_any(statement_of(c.human_explanation.urgent), urgency_markers)
                   /\ contains_any(statement_of(c.human_explanation.lengthy), long_markers)
                   /\ c.human_explanation.urgent # c.human_explanation.lengthy
                   /\ {c.human_explanation.urgent, c.human_explanation.lengthy}
                         = Range(c.proposition_ids)

(***************************************************************************)
(* C24: strategy 3 emits at most one logical contradiction per unordered   *)
(* pair of propositions, and emits it exactly when both expressions split  *)
(* into implications whose trimmed antecedents are textually equal and     *)
(* whose consequents are negations of each other: one consequent is the    *)
(* negation sign followed by the other, or the two differ and are equal    *)
(* after one leading negation sign is stripped from each.  Its severity is *)
(* critical when both propositions are load-bearing and major otherwise.   *)
(***************************************************************************)
C24_LogicalExactlyNegations ==
    pc = "cycles" =>
        \A i, j \in 1..Len(graph.propositions) :
            i < j =>
                LET a == graph.propositions[i]
                    b == graph.propositions[j]
                    pa == parse_implication(a.formal_expression)
                    pb == parse_implication(b.formal_expression)
                    strip_one(t) == IF t # <<>> /\ Head(t) = NotSign THEN Tail(t) ELSE t
                    negations(x, y) ==
                        \/ x = <<NotSign>> \o y
                        \/ y = <<NotSign>> \o x
                        \/ (x # y /\ strip_one(x) = strip_one(y))
                    conflict ==
                        /\ pa # None
                        /\ pb # None
                        /\ trim(pa.some.lhs) = trim(pb.some.lhs)
                        /\ negations(trim(pa.some.rhs), trim(pb.some.rhs))
                    records ==
                        {k \in 1..Len(contradictions) :
                            /\ contradictions[k].id.kind = "contradiction-logical"
                            /\ contradictions[k].proposition_ids = <<a.id, b.id>>}
                IN  /\ Cardinality(records) = IF conflict THEN 1 ELSE 0
                    /\ \A k \in records :
                          contradictions[k].severity =
                              IF a.is_load_bearing /\ b.is_load_bearing
                              THEN "critical" ELSE "major"

(***************************************************************************)
(* C25: for a graph of n > 2 propositions, centrality[v] is the directed   *)
(* betweenness of v over dependency relationships, the sum over ordered    *)
(* pairs (s, t) with s, t and v different and t reachable from s of the    *)
(* number of shortest s-t paths through v over the number of shortest s-t  *)
(* paths, divided by (n-1)(n-2).  A proposition with no incoming or no     *)
(* outgoing dependency relationship has centrality 0, and when the         *)
(* dependency relationships form a chain over the propositions, each       *)
(* interior node scores strictly higher than both endpoints.               *)
(***************************************************************************)
C25_CentralityIsBetweenness ==
    (CentralityDone /\ Len(graph.propositions) > 2) =>
        LET n == Len(graph.propositions)
            pairs(v) == {p \in PropIds(graph) \X PropIds(graph) :
                            p[1] # p[2] /\ p[1] # v /\ p[2] # v}
            is_chain(order) ==
                /\ Len(order) = n
                /\ Cardinality(DepIdx(graph)) = n - 1
                /\ \A i \in 1..(n - 1) : DepEdge(graph, order[i], order[i + 1])
        IN  /\ \A v \in PropIds(graph) :
                  /\ centrality[v][1] * (n - 1) * (n - 2) * Betweenness(graph, v, pairs(v))[2]
                        = Betweenness(graph, v, pairs(v))[1] * centrality[v][2]
                  /\ (\/ ~\E i \in DepIdx(graph) : graph.relationships[i].to_id = v
                      \/ ~\E i \in DepIdx(graph) : graph.relationships[i].from_id = v)
                     => centrality[v] = RInt(0)
            /\ \A order \in InjectiveSeqs(PropIds(graph)) :
                  is_chain(order) =>
                      \A i \in 2..(n - 1) :
                          /\ RLess(centrality[order[1]], centrality[order[i]])
                          /\ RLess(centrality[order[n]], centrality[order[i]])

(* A chain of four propositions has been scored: its two interior nodes    *)
(* lie on shortest paths and its endpoints on none.                        *)
C25_Witness ==
    /\ pc = "scores"
    /\ Len(graph.propositions) = 4
    /\ \E order \in InjectiveSeqs(PropIds(graph)) :
          /\ Len(order) = 4
          /\ Cardinality(DepIdx(graph)) = 3
          /\ \A i \in 1..3 : DepEdge(graph, order[i], order[i + 1])
          /\ centrality[order[2]] = Rat(1, 3)
          /\ centrality[order[1]] = RInt(0)

(***************************************************************************)
(* C26: vulnerable_assumptions of a proposition p is the number of         *)
(* depends_on or assumes relationships incident to p, outgoing or          *)
(* incoming, whose other endpoint is an existing proposition of kind       *)
(* assumption that is load-bearing and has no incoming supports            *)
(* relationship; relationships of other kinds contribute nothing.          *)
(***************************************************************************)
C26_VulnerableAssumptionsCount ==
    pc = "fallacies" =>
        \A k \in 1..Len(scores) :
            LET p == scores[k].proposition_id
                rels == graph.relationships
                vulnerable(id) ==
                    \E i \in 1..Len(graph.propositions) :
                        /\ graph.propositions[i].id = id
                        /\ graph.propositions[i].prop_type = "assumption"
                        /\ graph.propositions[i].is_load_bearing
                        /\ ~\E j \in 1..Len(rels) :
                               rels[j].rel_type = "supports" /\ rels[j].to_id = id
                incident ==
                    {i \in 1..Len(rels) :
                        /\ rels[i].rel_type \in {"depends_on", "assumes"}
                        /\ \/ rels[i].from_id = p /\ vulnerable(rels[i].to_id)
                           \/ rels[i].to_id = p /\ vulnerable(rels[i].from_id)}
            IN  scores[k].vulnerable_assumptions = Cardinality(incident)

(***************************************************************************)
(* C27: extract_variables tokenises its input into maximal runs of letters, *)
(* digits and underscores; outside parentheses two identifiers separated   *)
(* by a space or a comma are distinct tokens, each accepted on its own     *)
(* (contains '_' or is all lowercase; longer than one character; not a     *)
(* stopword), and never joined.  Stated for the expressions without        *)
(* parentheses: the result is the set of the accepted runs.                *)
(***************************************************************************)
C27_TokensNeverJoined ==
    (pc = "extracted" /\ \A k \in 1..Len(expression) : expression[k] \notin {"(", ")"}) =>
        LET identifier(k) == is_alphanumeric(expression[k]) \/ expression[k] = "_"
            is_run(i, j) ==
                /\ i <= j
                /\ \A k \in i..j : identifier(k)
                /\ i = 1 \/ ~identifier(i - 1)
                /\ j = Len(expression) \/ ~identifier(j + 1)
            tokens ==
                {SubSeq(expression, p[1], p[2]) :
                    p \in {q \in (1..Len(expression)) \X (1..Len(expression)) :
                              is_run(q[1], q[2])}}
            accepted(t) ==
                /\ \/ \E k \in 1..Len(t) : t[k] = "_"
                   \/ \A k \in 1..Len(t) : is_lowercase(t[k])
                /\ Len(t) > 1
                /\ \A k \in 1..Len(variable_stopwords) : variable_stopwords[k] # t
        IN  variables = {t \in tokens : accepted(t)}

(***************************************************************************)
(* C28: for every graph, dependency relationships with a missing fromId or *)
(* toId included, topological_order contains only ids of input             *)
(* propositions, each at most once, and a missing source endpoint does not *)
(* keep a proposition out of the order: a proposition that neither lies on *)
(* nor is reachable from a cycle, once the relationships from missing      *)
(* sources are set aside, is in the order.                                 *)
(***************************************************************************)
C28_OrderHoldsPropositionsOnly ==
    TopoDone =>
        LET present ==
                [graph EXCEPT !.relationships =
                    SelectSeq(@, LAMBDA r : r.from_id \in PropIds(graph))]
            acyclic(v) ==
                ~\E u \in KnownNodes(present) :
                    OnCycle(present, u) /\ v \in ReachableFrom(present, {u})
        IN  /\ \A k \in 1..Len(topo_order) : topo_order[k] \in PropIds(graph)
            /\ \A k, l \in 1..Len(topo_order) : k # l => topo_order[k] # topo_order[l]
            /\ \A v \in PropIds(graph) :
                  acyclic(v) => \E k \in 1..Len(topo_order) : topo_order[k] = v

(***************************************************************************)
(* C29: cycle detection and topological sort agree.  For every graph whose *)
(* relationship endpoints all exist, topological_order contains every      *)
(* proposition exactly once if and only if the cycles list is empty, and   *)
(* the cycles list is empty if and only if no proposition lies on a cycle  *)
(* of dependency relationships.                                            *)
(***************************************************************************)
C29_CyclesAndOrderAgree ==
    (TopoDone /\ WellFormed(graph)) =>
        LET complete ==
                \A p \in PropIds(graph) :
                    Cardinality({k \in 1..Len(topo_order) : topo_order[k] = p}) = 1
            acyclic == \A p \in PropIds(graph) : ~OnCycle(graph, p)
        IN  /\ complete <=> (cycles = <<>>)
            /\ (cycles = <<>>) <=> acyclic

(* A graph of three existing propositions and three relationships between  *)
(* them with a cycle that does not hold the first proposition: the cycles  *)
(* list is not empty and the order is not complete.                        *)
C29_Witness ==
    /\ pc = "centrality"
    /\ WellFormed(graph)
    /\ Len(graph.propositions) = 3
    /\ Len(graph.relationships) = 3
    /\ cycles # <<>>
    /\ \A c \in 1..Len(cycles) : ~SeqContains(cycles[c], graph.propositions[1].id)
    /\ Len(topo_order) < 3

====
